---- MODULE Spec2Model ----
(***************************************************************************)
(* weathr: the diff-based screen buffer (render.rs), the escape-sequence   *)
(* interpreter of the shell overlay (shell/overlay.rs), the PTY bridge     *)
(* (shell/pty_handler.rs), the frame loop that ties them together          *)
(* (app.rs) and the key-event encoder (shell/input.rs).                    *)
(*                                                                         *)
(* The specifications that share the module:                                   *)
(*   SpecRender   the TerminalRenderer object and the terminal it paints   *)
(*   SpecOverlay  the ShellOverlay interpreter                             *)
(*   SpecApp      the frame loop, the reader thread and the output queue   *)
(*   SpecInput    key_event_to_bytes applied to key events                 *)
(*   SpecKeys     the key events of App::run in shell mode                 *)
(*   SpecChunks   a byte stream fed to the ShellOverlay chunk by chunk     *)
(*   SpecAttribution  the column of the attribution line in App::run       *)
(*   SpecWeather  the WeatherClient cache (weather/client.rs)              *)
(***************************************************************************)
EXTENDS Integers, Sequences, FiniteSets

VARIABLES
    renderer,       \* TerminalRenderer: width, height, buffer, last_buffer
    term,           \* the real terminal behind stdout: screen, fg, x, y
    emitted,        \* draw operations queued by the operation just performed
    lastOp,         \* the renderer operation just performed, its arguments and result
    nops,           \* number of renderer operations performed
    panicked,       \* a panic unwound the thread
    state,          \* ShellOverlay::state, the OverlayState
    parser,         \* ShellOverlay::parser, the vte parser between two calls
    ncalls,         \* number of calls made on the ShellOverlay
    queue,          \* chunks sent on the PTY output channel and not yet received
    reader,         \* the reader thread of PtyHandler
    app,            \* App::run on the main thread: position in the frame loop
    barrier,        \* threads that have arrived at the Barrier of PtyHandler::new
    key_event,      \* the KeyEvent handed to key_event_to_bytes
    key_bytes,      \* the bytes key_event_to_bytes returned for it
    pty_input,      \* the last key event App::run received and what it wrote to the PTY
    fed,            \* the byte stream of the shell and how much of it process_output was given
    attribution,    \* the terminal size of a frame and where its attribution line starts
    weather         \* WeatherClient: cache, cache_duration, and the call in progress

rvars == <<renderer, term, emitted, lastOp, nops>>
ovars == <<state, parser, ncalls>>
avars == <<queue, reader, app, barrier>>
ivars == <<key_event, key_bytes, pty_input, fed, attribution, weather>>
vars == <<renderer, term, emitted, lastOp, nops, panicked, state, parser, ncalls,
          queue, reader, app, barrier, key_event, key_bytes, pty_input, fed,
          attribution, weather>>

(***************************************************************************)
(* Bounds of the model                                                     *)
(***************************************************************************)
MaxWidth == 3       \* largest terminal width
MaxHeight == 2      \* largest terminal height
MaxOps == 4         \* renderer operations in one run
MaxText == 2        \* longest text handed to render_line_colored
MaxCols == 2        \* largest overlay width
MaxRows == 2        \* largest overlay height
MaxCalls == 3       \* calls made on one ShellOverlay
MaxQueue == 2       \* chunks waiting in the PTY output channel

U16 == 2 ^ 16       \* u16 arithmetic is modulo U16

\* An arithmetic overflow panics in a build with overflow checks (the dev
\* profile) and wraps in a build without them (the release profile).
OverflowChecks == BOOLEAN
Widths == 0 .. MaxWidth
Heights == 0 .. MaxHeight

(***************************************************************************)
(* render.rs: cells and colors                                             *)
(***************************************************************************)
\* crossterm::style::Color: a named color, AnsiValue(n) or Rgb{r, g, b}
Named(kind) == [kind |-> kind, r |-> 0, g |-> 0, b |-> 0]
AnsiValue(n) == [kind |-> "AnsiValue", r |-> n, g |-> 0, b |-> 0]
Rgb(r, g, b) == [kind |-> "Rgb", r |-> r, g |-> g, b |-> b]
Reset == Named("Reset")
Red == Named("Red")
White == Named("White")

\* characters are Unicode scalar values
Space == 32
LetterX == CHOOSE ch \in {120} : TRUE      \* the letter x

Colors == {Reset, Red, White}
WriteColors == {Reset, Red}
Glyphs == {LetterX}

Cell(ch, color) == [character |-> ch, color |-> color]

DefaultCell == Cell(Space, Reset)

BlankBuffer(w, h) == [i \in 1 .. (w * h) |-> DefaultCell]

NewRenderer(w, h) ==
    [width |-> w, height |-> h,
     buffer |-> BlankBuffer(w, h), last_buffer |-> BlankBuffer(w, h)]

(***************************************************************************)
(* The terminal: what the emitted operations do to the real screen         *)
(***************************************************************************)
Op(name, x, y, color, ch) == [op |-> name, x |-> x, y |-> y, color |-> color, ch |-> ch]
MoveTo(x, y) == Op("MoveTo", x, y, Reset, Space)
SetForegroundColor(c) == Op("SetForegroundColor", 0, 0, c, Space)
PrintChar(ch) == Op("Print", 0, 0, Reset, ch)
ResetColor == Op("ResetColor", 0, 0, Reset, Space)
ClearAll == Op("Clear", 0, 0, Reset, Space)

NewTerm(w, h) ==
    [width |-> w, height |-> h, screen |-> BlankBuffer(w, h), fg |-> Reset, x |-> 0, y |-> 0]

ApplyOp(t, o) ==
    CASE o.op = "MoveTo" -> [t EXCEPT !.x = o.x, !.y = o.y]
      [] o.op = "SetForegroundColor" -> [t EXCEPT !.fg = o.color]
      [] o.op = "ResetColor" -> [t EXCEPT !.fg = Reset]
      [] o.op = "Clear" -> [t EXCEPT !.screen = BlankBuffer(t.width, t.height)]
      [] o.op = "Print" ->
            IF t.x < t.width /\ t.y < t.height
            THEN [t EXCEPT !.screen[t.y * t.width + t.x + 1] = Cell(o.ch, t.fg),
                           !.x = t.x + 1]
            ELSE t

RECURSIVE ApplyOps(_, _)
ApplyOps(t, ops) ==
    IF ops = <<>> THEN t ELSE ApplyOps(ApplyOp(t, Head(ops)), Tail(ops))

(***************************************************************************)
(* render.rs: TerminalRenderer operations                                  *)
(***************************************************************************)
InBoundsOffByOne(r, x, y) == x <= r.width /\ y < r.height

InBounds(r, x, y) == x < r.width /\ y < r.height

\* render_char
RenderChar(r, x, y, ch, color) ==
    IF InBounds(r, x, y)
    THEN LET buffer_idx == y * r.width + x
         IN  IF buffer_idx < Len(r.buffer)
             THEN [r EXCEPT !.buffer[buffer_idx + 1] = Cell(ch, color)]
             ELSE r
    ELSE r

\* render_line_colored: the renderer after the characters idx.. of text;
\* panic is set when the column addition overflows in a build that checks it
RECURSIVE RenderLineFrom(_, _, _, _, _, _, _)
RenderLineFrom(r, x, y, text, color, idx, checks) ==
    IF idx >= Len(text) THEN [r |-> r, panic |-> FALSE]
    ELSE IF x + idx >= U16 /\ checks THEN [r |-> r, panic |-> TRUE]
    ELSE LET col == (x + idx) % U16
             buffer_idx == y * r.width + col
             r2 == IF col < r.width /\ buffer_idx < Len(r.buffer)
                   THEN [r EXCEPT !.buffer[buffer_idx + 1] = Cell(text[idx + 1], color)]
                   ELSE r
         IN  RenderLineFrom(r2, x, y, text, color, idx + 1, checks)

RenderLineColored(r, x, y, text, color, checks) ==
    IF y >= r.height
    THEN [r |-> r, panic |-> FALSE]
    ELSE RenderLineFrom(r, x, y, text, color, 0, checks)

ClearBoth(r) ==
    [r EXCEPT !.buffer = [i \in 1 .. Len(r.buffer) |-> DefaultCell],
              !.last_buffer = [i \in 1 .. Len(r.last_buffer) |-> DefaultCell]]

\* clear
Clear(r) == [r EXCEPT !.buffer = [i \in 1 .. Len(r.buffer) |-> DefaultCell]]

\* flash_screen
FlashScreen(r) ==
    [r EXCEPT !.buffer = [i \in 1 .. Len(r.buffer) |-> [r.buffer[i] EXCEPT !.color = White]]]

UpdateSizeCurrentOnly(r, w, h) ==
    IF w # r.width \/ h # r.height
    THEN [r EXCEPT !.width = w, !.height = h, !.buffer = BlankBuffer(w, h)]
    ELSE r

\* update_size, given what terminal::size() answered
UpdateSize(r, w, h) ==
    IF w # r.width \/ h # r.height THEN NewRenderer(w, h) ELSE r

\* flush: the comparison of a cell with the last flushed one
CellChangedAlways(cell, last_cell) == TRUE

CellChanged(cell, last_cell) == cell # last_cell

\* flush: whether the cursor must be moved before the cell at (x, y)
NeedsMoveRowOnly(last_pos, x, y) ==
    LET expected_pos == IF last_pos = <<>> THEN <<>> ELSE <<x, last_pos[2]>>
    IN  expected_pos # <<x, y>>

NeedsMoveAlways(last_pos, x, y) == TRUE

NeedsMove(last_pos, x, y) ==
    LET expected_pos == IF last_pos = <<>> THEN <<>> ELSE <<last_pos[1] + 1, last_pos[2]>>
    IN  expected_pos # <<x, y>>

\* flush: the scan of the grid, from linear position i on
RECURSIVE FlushScan(_, _, _, _, _)
FlushScan(r, i, current_color, last_pos, ops) ==
    IF i >= r.width * r.height
    THEN [ops |-> ops, current_color |-> current_color]
    ELSE LET y == i \div r.width
             x == i % r.width
             idx == y * r.width + x
         IN  IF idx >= Len(r.buffer) \/ idx >= Len(r.last_buffer)
             THEN FlushScan(r, i + 1, current_color, last_pos, ops)
             ELSE LET cell == r.buffer[idx + 1]
                      last_cell == r.last_buffer[idx + 1]
                  IN  IF CellChanged(cell, last_cell)
                      THEN LET mv == IF NeedsMove(last_pos, x, y)
                                     THEN <<MoveTo(x, y)>> ELSE <<>>
                               sc == IF cell.color # current_color
                                     THEN <<SetForegroundColor(cell.color)>> ELSE <<>>
                           IN  FlushScan(r, i + 1, cell.color, <<x, y>>,
                                         ops \o mv \o sc \o <<PrintChar(cell.character)>>)
                      ELSE FlushScan(r, i + 1, current_color, last_pos, ops)

\* flush: the reset after the scan
TrailingResetNever(current_color) == <<>>

TrailingReset(current_color) ==
    IF current_color # Reset THEN <<ResetColor>> ELSE <<>>

\* flush: every operation queued, in order
FlushOps(r) ==
    LET scan == FlushScan(r, 0, Reset, <<>>, <<>>)
    IN  scan.ops \o TrailingReset(scan.current_color)

\* flush: last_buffer.copy_from_slice(&buffer)
FlushCommitSkipped(r) == r

FlushCommit(r) == [r EXCEPT !.last_buffer = r.buffer]

FlushFailedCommitted(r) == [r EXCEPT !.last_buffer = r.buffer]

\* flush left through `?` on a failed queue! or stdout.flush():
\* copy_from_slice is not reached
FlushFailed(r) == r

(***************************************************************************)
(* shell/overlay.rs: the escape-sequence interpreter                       *)
(***************************************************************************)
MinFirst(a, b) == a

Min(a, b) == IF a < b THEN a ELSE b
SatSub(a, b) == IF a > b THEN a - b ELSE 0          \* u16::saturating_sub

\* u16 addition and subtraction: the result, or -1 where a build with
\* overflow checks panics (a build without them wraps)
Add16(a, b, checks) ==
    IF a + b >= U16 THEN (IF checks THEN -1 ELSE (a + b) % U16) ELSE a + b
Sub16(a, b, checks) ==
    IF a < b THEN (IF checks THEN -1 ELSE a - b + U16) ELSE a - b
Mul16(a, b, checks) ==
    IF a * b >= U16 THEN (IF checks THEN -1 ELSE (a * b) % U16) ELSE a * b

OverlayCell(ch, fg, bg) == [character |-> ch, fg_color |-> fg, bg_color |-> bg]

DefaultOverlayCell == OverlayCell(Space, Reset, Reset)

BlankRow(w) == [x \in 1 .. w |-> DefaultOverlayCell]

BlankCells(w, h) == [y \in 1 .. h |-> BlankRow(w)]

\* ShellOverlay::new: the OverlayState (panic is set once a panic unwinds)
NewOverlayState(w, h) ==
    [cells |-> BlankCells(w, h),
     cursor_x |-> 0, cursor_y |-> 0, cursor_visible |-> TRUE,
     width |-> w, height |-> h,
     current_fg_color |-> Reset, current_bg_color |-> Reset,
     saved_cursor_x |-> 0, saved_cursor_y |-> 0,
     panic |-> FALSE]

Panic(s) == [s EXCEPT !.panic = TRUE]

\* cells[y][x] = cell: an index outside the vectors panics
SetCell(s, x, y, cell) ==
    IF y < Len(s.cells) /\ x < Len(s.cells[y + 1])
    THEN [s EXCEPT !.cells[y + 1][x + 1] = cell]
    ELSE Panic(s)

ResizeKeepsCursor(s, w, h) ==
    [s EXCEPT !.width = w, !.height = h, !.cells = BlankCells(w, h)]

ResizeNewState(s, w, h) == NewOverlayState(w, h)

\* ShellOverlay::resize
Resize(s, w, h) ==
    [s EXCEPT !.width = w, !.height = h, !.cells = BlankCells(w, h),
              !.cursor_x = 0, !.cursor_y = 0]

WriteCharDefaultColors(s, c) ==
    IF s.cursor_x < s.width /\ s.cursor_y < s.height
    THEN SetCell(s, s.cursor_x, s.cursor_y, OverlayCell(c, Reset, Reset))
    ELSE s

\* write_char
WriteChar(s, c) ==
    IF s.cursor_x < s.width /\ s.cursor_y < s.height
    THEN SetCell(s, s.cursor_x, s.cursor_y,
                 OverlayCell(c, s.current_fg_color, s.current_bg_color))
    ELSE s

ScrollUpRotates(s) ==
    IF Len(s.cells) = 0
    THEN Panic(s)
    ELSE [s EXCEPT !.cells = Append(Tail(s.cells), Head(s.cells))]

\* scroll_up: Vec::remove(0) panics on an empty vector
ScrollUp(s) ==
    IF Len(s.cells) = 0
    THEN Panic(s)
    ELSE [s EXCEPT !.cells = Append(Tail(s.cells), BlankRow(s.width))]

\* cursor_y += 1, then scroll when the row passed the last one
NextRow(s, checks) ==
    LET y1 == Add16(s.cursor_y, 1, checks)
    IN  IF y1 < 0 THEN Panic(s)
        ELSE IF y1 >= s.height
        THEN LET s2 == ScrollUp(s)
                 last == Sub16(s.height, 1, checks)
             IN  IF s2.panic THEN s2
                 ELSE IF last < 0 THEN Panic(s2)
                 ELSE [s2 EXCEPT !.cursor_y = last]
        ELSE [s EXCEPT !.cursor_y = y1]

\* advance_cursor
AdvanceCursor(s, checks) ==
    LET x1 == Add16(s.cursor_x, 1, checks)
    IN  IF x1 < 0 THEN Panic(s)
        ELSE IF x1 >= s.width
        THEN NextRow([s EXCEPT !.cursor_x = 0], checks)
        ELSE [s EXCEPT !.cursor_x = x1]

\* for x in from..width { cells[y][x] = default } on row y
RECURSIVE ClearRowFrom(_, _, _)
ClearRowFrom(s, y, x) ==
    IF x >= s.width \/ s.panic THEN s
    ELSE ClearRowFrom(SetCell(s, x, y, DefaultOverlayCell), y, x + 1)

\* for y in from..height { for x in 0..width { cells[y][x] = default } }
RECURSIVE ClearRowsFrom(_, _)
ClearRowsFrom(s, y) ==
    IF y >= s.height \/ s.panic THEN s
    ELSE ClearRowsFrom(ClearRowFrom(s, y, 0), y + 1)

ClearToEndRowOnly(s, checks) ==
    IF s.cursor_y < s.height THEN ClearRowFrom(s, s.cursor_y, s.cursor_x) ELSE s

\* clear_to_end
ClearToEnd(s, checks) ==
    LET s1 == IF s.cursor_y < s.height THEN ClearRowFrom(s, s.cursor_y, s.cursor_x) ELSE s
        y1 == Add16(s.cursor_y, 1, checks)
    IN  IF s1.panic THEN s1
        ELSE IF y1 < 0 THEN Panic(s1)
        ELSE ClearRowsFrom(s1, y1)

ClearScreenNothing(s) == s

\* clear_screen: every cell of every row the vector holds
ClearScreen(s) ==
    [s EXCEPT !.cells = [y \in 1 .. Len(s.cells) |->
                            [x \in 1 .. Len(s.cells[y]) |-> DefaultOverlayCell]]]

\* clear_line_to_end
ClearLineToEnd(s) ==
    IF s.cursor_y < s.height THEN ClearRowFrom(s, s.cursor_y, s.cursor_x) ELSE s

ClearLineFromCursor(s) ==
    IF s.cursor_y < s.height THEN ClearRowFrom(s, s.cursor_y, s.cursor_x) ELSE s

\* clear_line
ClearLine(s) ==
    IF s.cursor_y < s.height THEN ClearRowFrom(s, s.cursor_y, 0) ELSE s

\* parse_sgr: the named colors
SgrForeground(code) ==
    CASE code = 30 -> Named("Black") [] code = 31 -> Red
      [] code = 32 -> Named("Green") [] code = 33 -> Named("Yellow")
      [] code = 34 -> Named("Blue") [] code = 35 -> Named("Magenta")
      [] code = 36 -> Named("Cyan") [] code = 37 -> White
      [] code = 39 -> Reset
      [] code = 90 -> Named("DarkGrey") [] code = 91 -> Red
      [] code = 92 -> Named("Green") [] code = 93 -> Named("Yellow")
      [] code = 94 -> Named("Blue") [] code = 95 -> Named("Magenta")
      [] code = 96 -> Named("Cyan") [] code = 97 -> White

SgrBackground(code) ==
    CASE code = 40 -> Named("Black") [] code = 41 -> Red
      [] code = 42 -> Named("Green") [] code = 43 -> Named("Yellow")
      [] code = 44 -> Named("Blue") [] code = 45 -> Named("Magenta")
      [] code = 46 -> Named("Cyan") [] code = 47 -> White
      [] code = 49 -> Reset

SgrExtendedUnread(params, i) == [color |-> <<>>, next |-> i]

\* parse_sgr, 38 / 48: the color the following parameters select and the
\* index of the next unread parameter (color is <<>> when none is set)
SgrExtended(params, i) ==
    IF i > Len(params) THEN [color |-> <<>>, next |-> i]
    ELSE IF params[i] = 5
         THEN IF i + 1 > Len(params) THEN [color |-> <<>>, next |-> i + 1]
              ELSE [color |-> <<AnsiValue(params[i + 1] % 256)>>, next |-> i + 2]
    ELSE IF params[i] = 2
         THEN IF i + 3 > Len(params) THEN [color |-> <<>>, next |-> Len(params) + 1]
              ELSE [color |-> <<Rgb(params[i + 1] % 256, params[i + 2] % 256,
                                    params[i + 3] % 256)>>,
                    next |-> i + 4]
    ELSE [color |-> <<>>, next |-> i + 1]

\* parse_sgr, from parameter i on
RECURSIVE ParseSgr(_, _, _)
ParseSgr(s, params, i) ==
    IF i > Len(params) THEN s
    ELSE LET code == params[i]
         IN  IF code = 0
             THEN ParseSgr([s EXCEPT !.current_fg_color = Reset,
                                     !.current_bg_color = Reset], params, i + 1)
             ELSE IF code \in (30 .. 37) \cup {39} \cup (90 .. 97)
             THEN ParseSgr([s EXCEPT !.current_fg_color = SgrForeground(code)],
                           params, i + 1)
             ELSE IF code \in (40 .. 47) \cup {49}
             THEN ParseSgr([s EXCEPT !.current_bg_color = SgrBackground(code)],
                           params, i + 1)
             ELSE IF code = 38
             THEN LET e == SgrExtended(params, i + 1)
                  IN  ParseSgr(IF e.color = <<>> THEN s
                               ELSE [s EXCEPT !.current_fg_color = e.color[1]],
                               params, e.next)
             ELSE IF code = 48
             THEN LET e == SgrExtended(params, i + 1)
                  IN  ParseSgr(IF e.color = <<>> THEN s
                               ELSE [s EXCEPT !.current_bg_color = e.color[1]],
                               params, e.next)
             ELSE ParseSgr(s, params, i + 1)

\* Perform::print
PrintGlyph(s, c, checks) ==
    LET s1 == WriteChar(s, c)
    IN  IF s1.panic THEN s1 ELSE AdvanceCursor(s1, checks)

\* Perform::execute
Execute(s, byte, checks) ==
    CASE byte = 8 -> IF s.cursor_x > 0 THEN [s EXCEPT !.cursor_x = s.cursor_x - 1] ELSE s
      [] byte = 9 ->
            LET stop == Add16(s.cursor_x \div 8, 1, checks)
                x1 == IF stop < 0 THEN -1 ELSE Mul16(stop, 8, checks)
            IN  IF x1 < 0 THEN Panic(s)
                ELSE IF x1 >= s.width
                THEN NextRow([s EXCEPT !.cursor_x = 0], checks)
                ELSE [s EXCEPT !.cursor_x = x1]
      [] byte = 10 -> NextRow(s, checks)
      [] byte = 13 -> [s EXCEPT !.cursor_x = 0]
      [] byte = 12 -> [ClearScreen(s) EXCEPT !.cursor_x = 0, !.cursor_y = 0]
      [] OTHER -> s

\* params.iter().nth(i - 1).and_then(|p| p.first()).copied().unwrap_or(default)
ParamOr(params, i, default) == IF i <= Len(params) THEN params[i] ELSE default

RestoreCursorOnce(s) ==
    [s EXCEPT !.cursor_x = s.saved_cursor_x, !.cursor_y = s.saved_cursor_y,
              !.saved_cursor_x = 0, !.saved_cursor_y = 0]

\* csi_dispatch 'u': restore the saved cursor position
RestoreCursor(s) ==
    [s EXCEPT !.cursor_x = s.saved_cursor_x, !.cursor_y = s.saved_cursor_y]

\* Perform::csi_dispatch (action is the final byte)
CsiDispatch(s, params, action, checks) ==
    CASE action \in {72, 102} ->                                \* 'H' | 'f'
            LET row == SatSub(ParamOr(params, 1, 1), 1)
                col == SatSub(ParamOr(params, 2, 1), 1)
            IN  [s EXCEPT !.cursor_y = Min(row, SatSub(s.height, 1)),
                          !.cursor_x = Min(col, SatSub(s.width, 1))]
      [] action = 65 ->                                         \* 'A'
            [s EXCEPT !.cursor_y = SatSub(s.cursor_y, ParamOr(params, 1, 1))]
      [] action = 66 ->                                         \* 'B'
            LET sum == Add16(s.cursor_y, ParamOr(params, 1, 1), checks)
                last == Sub16(s.height, 1, checks)
            IN  IF sum < 0 \/ last < 0 THEN Panic(s)
                ELSE [s EXCEPT !.cursor_y = Min(sum, last)]
      [] action = 67 ->                                         \* 'C'
            LET sum == Add16(s.cursor_x, ParamOr(params, 1, 1), checks)
                last == Sub16(s.width, 1, checks)
            IN  IF sum < 0 \/ last < 0 THEN Panic(s)
                ELSE [s EXCEPT !.cursor_x = Min(sum, last)]
      [] action = 68 ->                                         \* 'D'
            [s EXCEPT !.cursor_x = SatSub(s.cursor_x, ParamOr(params, 1, 1))]
      [] action = 74 ->                                         \* 'J'
            LET mode == ParamOr(params, 1, 0)
            IN  IF mode = 0 THEN ClearToEnd(s, checks)
                ELSE IF mode \in {2, 3}
                THEN [ClearScreen(s) EXCEPT !.cursor_x = 0, !.cursor_y = 0]
                ELSE s
      [] action = 75 ->                                         \* 'K'
            LET mode == ParamOr(params, 1, 0)
            IN  IF mode = 0 THEN ClearLineToEnd(s)
                ELSE IF mode = 2 THEN ClearLine(s)
                ELSE s
      [] action = 109 -> ParseSgr(s, params, 1)                 \* 'm'
      [] action = 104 ->                                        \* 'h'
            IF Len(params) >= 1 /\ params[1] = 25
            THEN [s EXCEPT !.cursor_visible = TRUE] ELSE s
      [] action = 108 ->                                        \* 'l'
            IF Len(params) >= 1 /\ params[1] = 25
            THEN [s EXCEPT !.cursor_visible = FALSE] ELSE s
      [] action = 115 ->                                        \* 's'
            [s EXCEPT !.saved_cursor_x = s.cursor_x, !.saved_cursor_y = s.cursor_y]
      [] action = 117 -> RestoreCursor(s)                       \* 'u'
      [] OTHER -> s

(***************************************************************************)
(* ShellOverlay::render: the grid composed onto the Screen Buffer.  The    *)
(* two renderer operations it calls take a background color; the Screen    *)
(* Buffer they write is a grid of cells with a character, a foreground     *)
(* and a background, whose cells the decorative scene writes with the      *)
(* default background.                                                     *)
(***************************************************************************)
NewScreen(w, h, cell) ==
    [width |-> w, height |-> h, cells |-> [y \in 1 .. h |-> [x \in 1 .. w |-> cell]]]

\* set_with_bg: writes within bounds, a no-op out of bounds
WriteCell(scr, x, y, ch, fg, bg) ==
    IF x < scr.width /\ y < scr.height
    THEN [scr EXCEPT !.cells[y + 1][x + 1] = OverlayCell(ch, fg, bg)]
    ELSE scr

\* set: writes the character and its color within bounds and leaves the
\* background of the cell
WriteCharTransparent(scr, x, y, ch, fg) ==
    IF x < scr.width /\ y < scr.height
    THEN [scr EXCEPT !.cells[y + 1][x + 1] = OverlayCell(ch, fg, @.bg_color)]
    ELSE scr

IsDrawnNonBlank(cell) == cell.character # Space

\* render: cell.character != ' ' || cell.bg_color != Color::Reset
IsDrawn(cell) == cell.character # Space \/ cell.bg_color # Reset

\* render: the body of the two loops for the cell at (x, y)
RenderCell(s, scr, x, y) ==
    LET cell == s.cells[y + 1][x + 1]
    IN  IF IsDrawn(cell)
        THEN IF cell.bg_color = Reset
             THEN WriteCharTransparent(scr, x, y, cell.character, cell.fg_color)
             ELSE WriteCell(scr, x, y, cell.character, cell.fg_color, cell.bg_color)
        ELSE scr

\* render: for y in 0..height, for x in 0..width, from the i-th cell on
RECURSIVE RenderFrom(_, _, _)
RenderFrom(s, scr, i) ==
    IF i >= s.width * s.height THEN scr
    ELSE RenderFrom(s, RenderCell(s, scr, i % s.width, i \div s.width), i + 1)

\* ShellOverlay::render
Render(s, scr) == RenderFrom(s, scr, 0)

(***************************************************************************)
(* vte::Parser, as ShellOverlay::process_output drives it: the byte-level  *)
(* state machine that calls print, execute and csi_dispatch.  Parameters   *)
(* are u16 (saturating); the parameter being read is pushed at dispatch,   *)
(* so a sequence without digits dispatches the single parameter 0.  The    *)
(* intermediates and the ignore flag are not modelled: csi_dispatch does   *)
(* not read them.                                                          *)
(***************************************************************************)
NewParser == [state |-> "Ground", params |-> <<>>, param |-> 0, need |-> 0, cp |-> 0]

IsC0(b) == b \in (0 .. 23) \cup {25} \cup (28 .. 31)

\* Action::Param
ParamByte(p, b) ==
    IF b = 59
    THEN IF Len(p.params) >= 32 THEN p
         ELSE [p EXCEPT !.params = Append(p.params, p.param), !.param = 0]
    ELSE [p EXCEPT !.param = Min(p.param * 10 + (b - 48), U16 - 1)]

\* the parameters handed to csi_dispatch
DispatchParams(p) ==
    IF Len(p.params) >= 32 THEN p.params ELSE Append(p.params, p.param)

\* one byte in the ground state: ASCII is printed, UTF-8 is decoded first
\* (an ill-formed sequence prints U+FFFD)
AdvanceGround(ps, b, checks) ==
    LET p == ps.parser
        s == ps.state
    IN  IF p.need > 0
        THEN IF b \in 128 .. 191
             THEN LET cp == p.cp * 64 + (b - 128)
                  IN  IF p.need = 1
                      THEN [parser |-> NewParser, state |-> PrintGlyph(s, cp, checks)]
                      ELSE [parser |-> [p EXCEPT !.need = p.need - 1, !.cp = cp],
                            state |-> s]
             ELSE [parser |-> NewParser, state |-> PrintGlyph(s, 65533, checks)]
        ELSE IF IsC0(b) THEN [parser |-> p, state |-> Execute(s, b, checks)]
        ELSE IF b \in 32 .. 127 THEN [parser |-> p, state |-> PrintGlyph(s, b, checks)]
        ELSE IF b \in 194 .. 223
        THEN [parser |-> [p EXCEPT !.need = 1, !.cp = b - 192], state |-> s]
        ELSE IF b \in 224 .. 239
        THEN [parser |-> [p EXCEPT !.need = 2, !.cp = b - 224], state |-> s]
        ELSE IF b \in 240 .. 244
        THEN [parser |-> [p EXCEPT !.need = 3, !.cp = b - 240], state |-> s]
        ELSE [parser |-> p, state |-> PrintGlyph(s, 65533, checks)]

\* Parser::advance, one byte
Advance(ps, b, checks) ==
    LET p == ps.parser
        s == ps.state
        to(st) == [parser |-> [p EXCEPT !.state = st], state |-> s]
    IN  IF b = 27
        THEN [parser |-> [NewParser EXCEPT !.state = "Escape"], state |-> s]
        ELSE IF b \in {24, 26}
        THEN [parser |-> NewParser, state |-> Execute(s, b, checks)]
        ELSE CASE p.state = "Ground" -> AdvanceGround(ps, b, checks)
          [] p.state = "Escape" ->
                IF IsC0(b) THEN [parser |-> p, state |-> Execute(s, b, checks)]
                ELSE IF b = 91 THEN to("CsiEntry")
                ELSE IF b = 93 THEN to("OscString")
                ELSE IF b \in {80, 88, 94, 95} THEN to("StringIgnore")
                ELSE IF b \in 32 .. 47 THEN to("EscapeIntermediate")
                ELSE IF b \in 48 .. 126 THEN [parser |-> NewParser, state |-> s]
                ELSE ps
          [] p.state = "EscapeIntermediate" ->
                IF IsC0(b) THEN [parser |-> p, state |-> Execute(s, b, checks)]
                ELSE IF b \in 48 .. 126 THEN [parser |-> NewParser, state |-> s]
                ELSE ps
          [] p.state \in {"CsiEntry", "CsiParam", "CsiIntermediate"} ->
                IF IsC0(b) THEN [parser |-> p, state |-> Execute(s, b, checks)]
                ELSE IF b \in 64 .. 126
                THEN [parser |-> NewParser,
                      state |-> CsiDispatch(s, DispatchParams(p), b, checks)]
                ELSE IF b \in 32 .. 47 THEN to("CsiIntermediate")
                ELSE IF p.state = "CsiIntermediate" /\ b \in 48 .. 63 THEN to("CsiIgnore")
                ELSE IF b \in (48 .. 57) \cup {59}
                THEN [parser |-> [ParamByte(p, b) EXCEPT !.state = "CsiParam"], state |-> s]
                ELSE IF b = 58 THEN to("CsiIgnore")
                ELSE IF b \in 60 .. 63
                THEN IF p.state = "CsiEntry" THEN to("CsiParam") ELSE to("CsiIgnore")
                ELSE ps
          [] p.state = "CsiIgnore" ->
                IF IsC0(b) THEN [parser |-> p, state |-> Execute(s, b, checks)]
                ELSE IF b \in 64 .. 126 THEN [parser |-> NewParser, state |-> s]
                ELSE ps
          [] p.state = "OscString" ->
                IF b = 7 THEN [parser |-> NewParser, state |-> s] ELSE ps
          [] p.state = "StringIgnore" -> ps

RECURSIVE AdvanceAll(_, _, _)
AdvanceAll(ps, data, checks) ==
    IF data = <<>> \/ ps.state.panic THEN ps
    ELSE CHOOSE r \in { AdvanceAll(next, Tail(data), checks) :
                           next \in {Advance(ps, Head(data), checks)} } : TRUE

ProcessOutputNewParser(ps, data, checks) ==
    AdvanceAll([ps EXCEPT !.parser = NewParser], data, checks)

\* ShellOverlay::process_output: parser.advance(&mut state, data); a panic
\* unwinds out of the call
RECURSIVE ProcessOutput(_, _, _)
ProcessOutput(ps, data, checks) ==
    IF data = <<>> \/ ps.state.panic THEN ps
    ELSE CHOOSE r \in { ProcessOutput(next, Tail(data), checks) :
                           next \in {Advance(ps, Head(data), checks)} } : TRUE

(***************************************************************************)
(* PTY bridge (shell/pty_handler.rs): the output channel, the reader       *)
(* thread and read_output                                                  *)
(***************************************************************************)
\* Every chunk the reader thread reads is numbered; the numbers are kept
\* modulo IdWindow, which is larger than the number of chunks in flight.
IdWindow == MaxQueue + 2
NextId(id) == (id + 1) % IdWindow
NoId == IdWindow

Chunk(id, data) == [id |-> id, data |-> data]

\* io::Result<Vec<u8>> of read_output
OkData(id, data) == [ok |-> TRUE, data |-> data, id |-> id]
BrokenPipe == [ok |-> FALSE, data |-> <<>>, id |-> NoId]
NoRead == [ok |-> TRUE, data |-> <<>>, id |-> NoId]

ReadOutputFirstClosed(q, closed) ==
    IF closed
    THEN [result |-> BrokenPipe, queue |-> q]
    ELSE IF q # <<>>
         THEN [result |-> OkData(Head(q).id, Head(q).data), queue |-> Tail(q)]
         ELSE [result |-> OkData(NoId, <<>>), queue |-> q]

\* PtyHandler::read_output: try_recv on the channel. closed: every sender
\* has been dropped.
ReadOutput(q, closed) ==
    IF q # <<>>
    THEN [result |-> OkData(Head(q).id, Head(q).data), queue |-> Tail(q)]
    ELSE IF closed
         THEN [result |-> BrokenPipe, queue |-> q]
         ELSE [result |-> OkData(NoId, <<>>), queue |-> q]

\* what reader.read(&mut buf) can return in the reader thread
ReadResults == {"Ok", "Interrupted", "Err"}

IsEofNever(n) == FALSE

\* Ok(0) => break
IsEof(n) == n = 0

NewReader == [status |-> "running", sent |-> 0, last |-> "none"]

\* std::thread::spawn: the thread exists and has not run yet
SpawnedReader == [NewReader EXCEPT !.status = "spawned"]

\* Barrier::new(2)
BarrierParties == 2

ReleasedAlone(b) == b >= 1

\* Barrier::wait returns once every party has called it
Released(b) == b = BarrierParties
NoReader == [status |-> "none", sent |-> 0, last |-> "none"]

\* One iteration of the reader thread's loop. res, data: the result of the
\* blocking read; rx_alive: the receiver has not been dropped.
ReaderLoop(rd, q, res, data, rx_alive) ==
    IF res = "Ok"
    THEN IF IsEof(Len(data))
         THEN [reader |-> [rd EXCEPT !.status = "exited", !.last = "Eof"], queue |-> q]
         ELSE IF rx_alive
              THEN [reader |-> [rd EXCEPT !.sent = NextId(rd.sent), !.last = "Ok"],
                    queue |-> Append(q, Chunk(rd.sent, data))]
              ELSE [reader |-> [rd EXCEPT !.status = "exited", !.last = "SendFailed"],
                    queue |-> q]
    ELSE IF res = "Interrupted"
         THEN [reader |-> [rd EXCEPT !.last = "Interrupted"], queue |-> q]
         ELSE [reader |-> [rd EXCEPT !.status = "exited", !.last = "Err"], queue |-> q]

(***************************************************************************)
(* App (app.rs): the frame loop                                            *)
(***************************************************************************)
\* pc: where App::run stands; result: how it returned; shell_call: the call
\* the last step made on the ShellManager; exit_signal: whether read_output
\* has returned BrokenPipe, in this frame or in an earlier one; received:
\* number of the next chunk to come out of the channel; pty_drop: how far
\* the release of the PtyHandler has come; exit_write: the result of the
\* write of the exit command; renderer_size: width and height of the
\* TerminalRenderer handed to App::run; pty_size: the size last given to
\* the kernel PTY; screen: the current grid of that TerminalRenderer.
NewApp(background_mode) ==
    [ pc |-> "compose",
      result |-> "running",
      background_mode |-> background_mode,
      shell_manager |-> IF background_mode THEN "Some" ELSE "None",
      prefix_key_pressed |-> FALSE,
      hide_hud |-> FALSE,
      received |-> 0,
      last_read |-> NoRead,
      exit_signal |-> "no",
      shell_call |-> "none",
      setup |-> "none",
      exit_write |-> "none",
      pty_drop |-> "no",
      renderer_size |-> <<0, 0>>,
      pty_size |-> <<0, 0>>,
      screen |-> NewScreen(0, 0, DefaultOverlayCell) ]

\* App::new about to create the ShellManager (config.shell.background_mode)
StartingApp == [NewApp(TRUE) EXCEPT !.pc = "openpty", !.shell_manager = "None",
                                    !.setup = "pending"]

\* results of the fallible steps of PtyHandler::new
SetupResults == {"Ok", "PtyCreation", "ShellSpawn"}

Return(a, result) == [a EXCEPT !.pc = "done", !.result = result]

AppIdle ==
    /\ queue = <<>>
    /\ reader = NoReader
    /\ app = Return(NewApp(FALSE), "idle")
    /\ barrier = 0

SendExitPropagates(a, write_ok) ==
    [a EXCEPT !.exit_write = IF write_ok THEN "ok" ELSE "err",
              !.pty_drop = IF write_ok THEN "exit" ELSE "slept"]

\* PtyHandler::send_exit up to the sleep: let _ = self.write_input(b"exit\n")
SendExit(a, write_ok) ==
    [a EXCEPT !.exit_write = IF write_ok THEN "ok" ELSE "err", !.pty_drop = "exit"]

\* TerminalRenderer::manual_resize: the Screen Buffer takes the size of the
\* resize event
ManualResize(a, width, height) ==
    [a EXCEPT !.renderer_size = <<width, height>>,
              !.screen = NewScreen(width, height, DefaultOverlayCell)]

\* what the decorative layers leave in a cell they draw
DecorCell == OverlayCell(LetterX, White, Reset)

\* App::run from renderer.clear() to the last decorative layer: here the
\* layers draw every cell of the Screen Buffer
ClearAndDecorate(a) ==
    [a EXCEPT !.screen = NewScreen(a.renderer_size[1], a.renderer_size[2], DecorCell)]

ShellRenderUnder(a, s) ==
    [a EXCEPT !.shell_call = "render",
              !.screen = NewScreen(a.renderer_size[1], a.renderer_size[2], DecorCell)]

\* ShellManager::render: self.overlay.render(renderer)
ShellRender(a, s) ==
    [a EXCEPT !.shell_call = "render", !.screen = Render(s, a.screen)]

ShellResizePtyOnly(a, s, width, height, pty_ok) ==
    IF ~pty_ok
    THEN [app |-> [a EXCEPT !.shell_call = "resize"], state |-> s, ok |-> FALSE]
    ELSE [app |-> [a EXCEPT !.shell_call = "resize", !.pty_size = <<width, height>>],
          state |-> s, ok |-> TRUE]

\* ShellManager::resize: pty_handler.resize(width, height)?, then
\* overlay.resize(width, height). pty_ok: the result of the PTY's resize.
ShellResize(a, s, width, height, pty_ok) ==
    IF ~pty_ok
    THEN [app |-> [a EXCEPT !.shell_call = "resize"], state |-> s, ok |-> FALSE]
    ELSE [app |-> [a EXCEPT !.shell_call = "resize", !.pty_size = <<width, height>>],
          state |-> Resize(s, width, height), ok |-> TRUE]
(***************************************************************************)
(* Key-event encoder (shell/input.rs)                                      *)
(***************************************************************************)
\* crossterm KeyEvent: code with the character of KeyCode::Char(c) and the
\* number of KeyCode::F(n), and the set of modifiers held
KeyEvent(code, c, n, modifiers) ==
    [code |-> code, c |-> c, n |-> n, modifiers |-> modifiers]

Modifiers == {"CONTROL", "ALT", "SHIFT"}

\* char::to_ascii_uppercase
ToAsciiUppercase(c) == IF c \in 97 .. 122 THEN c - 32 ELSE c

\* char::to_string().as_bytes(): the UTF-8 encoding of a scalar value
CharBytes(c) ==
    IF c < 128 THEN <<c>>
    ELSE IF c < 2048 THEN <<192 + (c \div 64), 128 + (c % 64)>>
    ELSE IF c < 65536
    THEN <<224 + (c \div 4096), 128 + ((c \div 64) % 64), 128 + (c % 64)>>
    ELSE <<240 + (c \div 262144), 128 + ((c \div 4096) % 64),
           128 + ((c \div 64) % 64), 128 + (c % 64)>>

EncodeCharAltFirst(c, modifiers) ==
    IF "ALT" \in modifiers THEN <<27>> \o CharBytes(c)
    ELSE IF "CONTROL" \in modifiers
    THEN IF c = 32 \/ c = 64 THEN <<0>>
         ELSE IF c = 63 THEN <<127>>
         ELSE <<(ToAsciiUppercase(c) % 256) % 32>>
    ELSE CharBytes(c)

\* key_event_to_bytes, the arm KeyCode::Char(c); `as u8` keeps the low 8
\* bits and & 0x1f the low 5
EncodeChar(c, modifiers) ==
    IF "CONTROL" \in modifiers
    THEN IF c = 32 \/ c = 64 THEN <<0>>
         ELSE IF c = 63 THEN <<127>>
         ELSE <<(ToAsciiUppercase(c) % 256) % 32>>
    ELSE IF "ALT" \in modifiers THEN <<27>> \o CharBytes(c)
    ELSE CharBytes(c)

\* key_event_to_bytes, the arms KeyCode::F(n)
EncodeFunctionKey(n) ==
    CASE n = 1 -> <<27, 79, 80>>
      [] n = 2 -> <<27, 79, 81>>
      [] n = 3 -> <<27, 79, 82>>
      [] n = 4 -> <<27, 79, 83>>
      [] n = 5 -> <<27, 91, 49, 53, 126>>
      [] n = 6 -> <<27, 91, 49, 55, 126>>
      [] n = 7 -> <<27, 91, 49, 56, 126>>
      [] n = 8 -> <<27, 91, 49, 57, 126>>
      [] n = 9 -> <<27, 91, 50, 48, 126>>
      [] n = 10 -> <<27, 91, 50, 49, 126>>
      [] n = 11 -> <<27, 91, 50, 51, 126>>
      [] n = 12 -> <<27, 91, 50, 52, 126>>
      [] OTHER -> <<>>

\* key_event_to_bytes
KeyEventToBytes(key) ==
    CASE key.code = "Char" -> EncodeChar(key.c, key.modifiers)
      [] key.code = "Enter" -> <<13>>
      [] key.code = "Backspace" -> <<127>>
      [] key.code = "Tab" ->
            IF "SHIFT" \in key.modifiers THEN <<27, 91, 90>> ELSE <<9>>
      [] key.code = "Esc" -> <<27>>
      [] key.code = "Up" -> <<27, 91, 65>>
      [] key.code = "Down" -> <<27, 91, 66>>
      [] key.code = "Right" -> <<27, 91, 67>>
      [] key.code = "Left" -> <<27, 91, 68>>
      [] key.code = "Home" -> <<27, 91, 72>>
      [] key.code = "End" -> <<27, 91, 70>>
      [] key.code = "PageUp" -> <<27, 91, 53, 126>>
      [] key.code = "PageDown" -> <<27, 91, 54, 126>>
      [] key.code = "Delete" -> <<27, 91, 51, 126>>
      [] key.code = "Insert" -> <<27, 91, 50, 126>>
      [] key.code = "F" -> EncodeFunctionKey(key.n)
      [] OTHER -> <<>>

\* no key event has been encoded
NoKeyEvent == KeyEvent("Null", 0, 0, {})

\* no key event has been received
NoInput == [key |-> NoKeyEvent, forwarded |-> FALSE, written |-> <<>>]

\* no byte stream is being fed
NoStream == [stream |-> 0, pos |-> 0, calls |-> 0, checks |-> FALSE, resized |-> FALSE]

NoAttribution == [term_width |-> 0, term_height |-> 0, checks |-> FALSE, x |-> 0, y |-> 0, drawn |-> FALSE]

NoData == "none"
NoCache == [some |-> FALSE, data |-> NoData, age |-> 0]
NoResult == [kind |-> "none", data |-> NoData]

NoWeather ==
    [cache |-> NoCache, cache_duration |-> 0, pc |-> "unused", op |-> "none",
     called |-> FALSE, result |-> NoResult, calls |-> 0]

InputIdle ==
    /\ key_event = NoKeyEvent
    /\ key_bytes = <<>>
    /\ pty_input = NoInput
    /\ fed = NoStream
    /\ attribution = NoAttribution
    /\ weather = NoWeather

(***************************************************************************)
(* App (app.rs): key events                                                *)
(***************************************************************************)
CharKey(c, modifiers) == KeyEvent("Char", c, 0, modifiers)

\* the keys the handlers tell apart: Ctrl-W, q, h, a, Ctrl-C, Q, Ctrl-Q,
\* Enter and F13
Keys ==
    { CharKey(119, {"CONTROL"}), CharKey(113, {}), CharKey(104, {}), CharKey(97, {}),
      CharKey(99, {"CONTROL"}), CharKey(81, {"SHIFT"}), CharKey(113, {"CONTROL"}),
      KeyEvent("Enter", 0, 0, {}), KeyEvent("F", 0, 13, {}) }

\* App::handle_normal_input: TRUE to leave the loop
HandleNormalInput(key) ==
    \/ key.code = "Char" /\ key.c \in {113, 81}
    \/ key.code = "Char" /\ key.c = 99 /\ "CONTROL" \in key.modifiers

WriteInputFallible(data, io_ok, k) ==
    IF io_ok
    THEN [ok |-> TRUE, written |-> data]
    ELSE [ok |-> FALSE, written |-> SubSeq(data, 1, k)]

\* PtyHandler::write_input: write_all, then flush. write_all of no bytes
\* makes no write; io_ok: every write of the PTY master succeeds. A failed
\* write_all has written the first k bytes.
WriteInput(data, io_ok, k) ==
    IF data = <<>> \/ io_ok
    THEN [ok |-> TRUE, written |-> data]
    ELSE [ok |-> FALSE, written |-> SubSeq(data, 1, k)]

\* key.modifiers.contains(KeyModifiers::CONTROL) && key.code == KeyCode::Char('w')
IsPrefixKey(key) ==
    "CONTROL" \in key.modifiers /\ key.code = "Char" /\ key.c = 119

HandleBackgroundInputPrefixLast(a, key, io_ok, k) ==
    IF a.prefix_key_pressed
    THEN [app |-> [a EXCEPT !.prefix_key_pressed = FALSE,
                            !.hide_hud = IF key.code = "Char" /\ key.c = 104
                                         THEN ~@ ELSE @],
          quit |-> key.code = "Char" /\ key.c = 113, err |-> FALSE,
          written |-> <<>>]
    ELSE IF IsPrefixKey(key)
         THEN [app |-> [a EXCEPT !.prefix_key_pressed = TRUE], quit |-> FALSE,
               err |-> FALSE, written |-> <<>>]
         ELSE IF a.shell_manager = "Some"
              THEN LET w == WriteInput(KeyEventToBytes(key), io_ok, k)
                   IN  [app |-> [a EXCEPT !.shell_call = "write_input"],
                        quit |-> FALSE, err |-> ~w.ok, written |-> w.written]
              ELSE [app |-> a, quit |-> FALSE, err |-> FALSE, written |-> <<>>]

\* App::handle_background_input. io_ok, k: see WriteInput. Gives the App
\* after the call, quit (Ok(true)) or err (the error of write_input, passed
\* on), and the bytes that reached the PTY.
HandleBackgroundInput(a, key, io_ok, k) ==
    IF IsPrefixKey(key)
    THEN [app |-> [a EXCEPT !.prefix_key_pressed = TRUE], quit |-> FALSE, err |-> FALSE,
          written |-> <<>>]
    ELSE IF a.prefix_key_pressed
         THEN [app |-> [a EXCEPT !.prefix_key_pressed = FALSE,
                                 !.hide_hud = IF key.code = "Char" /\ key.c = 104
                                              THEN ~@ ELSE @],
               quit |-> key.code = "Char" /\ key.c = 113, err |-> FALSE,
               written |-> <<>>]
         ELSE IF a.shell_manager = "Some"
              THEN LET w == WriteInput(KeyEventToBytes(key), io_ok, k)
                   IN  [app |-> [a EXCEPT !.shell_call = "write_input"],
                        quit |-> FALSE, err |-> ~w.ok, written |-> w.written]
              ELSE [app |-> a, quit |-> FALSE, err |-> FALSE, written |-> <<>>]

(***************************************************************************)
(* App (app.rs): the attribution line of a frame in normal mode            *)
(***************************************************************************)
\* App::new: the provider names the attribution can end with, by length
ProviderNameLen ==
    [OpenWeatherMap |-> 14, WeatherAPI_com |-> 14, Open_Meteo_com |-> 14]

\* attribution.len() of format!("Weather data by {}", provider_name)
AttributionLen(provider) == 16 + ProviderNameLen[provider]

\* attribution_x: term_width - attribution.len() as u16 - 2 where the
\* terminal is wider than the text, else 0; -1 where the build panics
AttributionX(term_width, len, checks) ==
    IF term_width > len % U16
    THEN Sub16(Sub16(term_width, len % U16, checks), 2, checks)
    ELSE 0

\* attribution_y: the last row
AttributionY(term_height) == IF term_height > 0 THEN term_height - 1 ELSE 0

(***************************************************************************)
(* WeatherClient (weather/client.rs)                                       *)
(***************************************************************************)
\* what the provider can answer: a response, or an error string
Responses == {"clear", "rain"}
ProviderError == "provider error"
ProviderReplies ==
    { [ok |-> TRUE, value |-> r] : r \in Responses }
        \cup { [ok |-> FALSE, value |-> ProviderError] }

\* WeatherNormalizer::normalize: the WeatherData made of a response
Normalize(response) == <<"normalized", response>>

Ok(data) == [kind |-> "Ok", data |-> data]
Err(e) == [kind |-> "Err", data |-> e]

\* CachedWeather { data, fetched_at }; age is fetched_at.elapsed()
CachedWeather(data, age) == [some |-> TRUE, data |-> data, age |-> age]

\* WeatherClient::new
NewWeatherClient(cache_duration) ==
    [NoWeather EXCEPT !.cache_duration = cache_duration, !.pc = "idle"]

\* a cache entry that still counts at age cache_duration
IsFreshInclusive(cached, cache_duration) == cached.age <= cache_duration
\* cached.fetched_at.elapsed() < self.cache_duration
IsFresh(cached, cache_duration) == cached.age < cache_duration

\* get_current_weather up to the provider call: the cached data, or the
\* call left waiting for the provider
CacheLookup(w) ==
    IF w.cache.some /\ IsFresh(w.cache, w.cache_duration)
    THEN [w EXCEPT !.op = "get", !.calls = @ + 1, !.called = FALSE,
                   !.result = Ok(w.cache.data)]
    ELSE [w EXCEPT !.op = "get", !.calls = @ + 1, !.called = TRUE,
                   !.result = NoResult, !.pc = "fetching"]

\* get_current_weather from the provider's answer on: `?` returns the error,
\* a response is normalized, stored with fetched_at = Instant::now() and
\* returned
ProviderReturned(w, reply) ==
    IF ~reply.ok
    THEN [w EXCEPT !.pc = "idle", !.result = Err(reply.value)]
    ELSE LET data == Normalize(reply.value)
         IN  [w EXCEPT !.pc = "idle", !.cache = CachedWeather(data, 0),
                       !.result = Ok(data)]

\* invalidate_cache
InvalidateCache(w) ==
    [w EXCEPT !.op = "invalidate", !.calls = @ + 1, !.cache = NoCache]

\* time passing: the entry of the cache grows older
Elapse(w) == [w EXCEPT !.cache.age = @ + 1]

(***************************************************************************)
(* SpecRender: any sequence of operations on one TerminalRenderer          *)
(***************************************************************************)
\* lastOp: the operation's name, whether it returned Ok, whether its
\* coordinates were inside the grid, and whether the operation before it was
\* a flush that returned Ok
OpRec(name, ok, inb) ==
    [name |-> name, ok |-> ok, inb |-> inb,
     after_flush |-> (lastOp.name = "flush" /\ lastOp.ok)]

\* a failed flush returns its error out of App::run: nothing is drawn after it
RenderLive == ~panicked /\ nops < MaxOps /\ ~(lastOp.name = "flush" /\ ~lastOp.ok)

\* the parts of the program a specification leaves out stay as constructed
RenderIdle ==
    /\ renderer = NewRenderer(0, 0)
    /\ term = NewTerm(0, 0)
    /\ emitted = <<>>
    /\ lastOp = [name |-> "new", ok |-> TRUE, inb |-> TRUE, after_flush |-> FALSE]
    /\ nops = 0

OverlayIdle ==
    /\ state = NewOverlayState(0, 0)
    /\ parser = NewParser
    /\ ncalls = 0

InitRender ==
    /\ \E w \in Widths, h \in Heights :
          /\ renderer = NewRenderer(w, h)
          /\ term = NewTerm(w, h)
    /\ emitted = <<>>
    /\ lastOp = [name |-> "new", ok |-> TRUE, inb |-> TRUE, after_flush |-> FALSE]
    /\ nops = 0
    /\ panicked = FALSE
    /\ OverlayIdle
    /\ AppIdle
    /\ InputIdle

DoClear ==
    /\ RenderLive
    /\ renderer' = Clear(renderer)
    /\ emitted' = <<>>
    /\ lastOp' = OpRec("clear", TRUE, TRUE)
    /\ nops' = nops + 1
    /\ UNCHANGED <<ovars, avars, ivars>>
    /\ UNCHANGED <<term, panicked>>

\* rows written to: the first, the last of the tallest grid, and the one
\* below it
WriteRows == {0, MaxHeight - 1, MaxHeight}

DoRenderChar ==
    /\ RenderLive
    /\ \E x \in Widths, y \in WriteRows, ch \in Glyphs, color \in WriteColors :
          /\ renderer' = RenderChar(renderer, x, y, ch, color)
          /\ lastOp' = OpRec("render_char", TRUE, x < renderer.width /\ y < renderer.height)
    /\ emitted' = <<>>
    /\ nops' = nops + 1
    /\ UNCHANGED <<ovars, avars, ivars>>
    /\ UNCHANGED <<term, panicked>>

DoRenderLineColored ==
    /\ RenderLive
    /\ \E x \in {0, U16 - 1}, y \in {0}, n \in {MaxText}, color \in {Red},
          checks \in OverflowChecks :
          LET text == [i \in 1 .. n |-> LetterX]
              res == RenderLineColored(renderer, x, y, text, color, checks)
          IN  /\ panicked' = res.panic
              /\ renderer' = res.r
              /\ lastOp' = OpRec("render_line_colored", ~res.panic,
                                 x < renderer.width /\ y < renderer.height)
    /\ emitted' = <<>>
    /\ nops' = nops + 1
    /\ UNCHANGED <<ovars, avars, ivars>>
    /\ UNCHANGED term

DoFlashScreen ==
    /\ RenderLive
    /\ renderer' = FlashScreen(renderer)
    /\ emitted' = <<>>
    /\ lastOp' = OpRec("flash_screen", TRUE, TRUE)
    /\ nops' = nops + 1
    /\ UNCHANGED <<ovars, avars, ivars>>
    /\ UNCHANGED <<term, panicked>>

\* the terminal was resized to w x h, then update_size read the new size
DoUpdateSize ==
    /\ RenderLive
    /\ \E w \in Widths, h \in Heights :
          LET changed == w # renderer.width \/ h # renderer.height
          IN  /\ renderer' = UpdateSize(renderer, w, h)
              /\ emitted' = IF changed THEN <<ClearAll>> ELSE <<>>
              /\ term' = IF changed THEN NewTerm(w, h) ELSE term
    /\ lastOp' = OpRec("update_size", TRUE, TRUE)
    /\ nops' = nops + 1
    /\ UNCHANGED <<ovars, avars, ivars>>
    /\ UNCHANGED panicked

\* flush, every write to stdout succeeding
DoFlush ==
    /\ RenderLive
    /\ LET ops == FlushOps(renderer)
       IN  /\ emitted' = ops
           /\ term' = ApplyOps(term, ops)
    /\ renderer' = FlushCommit(renderer)
    /\ lastOp' = OpRec("flush", TRUE, TRUE)
    /\ nops' = nops + 1
    /\ UNCHANGED <<ovars, avars, ivars>>
    /\ UNCHANGED panicked

\* flush, a write to stdout failing after none, half or all of the operations
\* reached the terminal
DoFlushFail ==
    /\ RenderLive
    /\ LET ops == FlushOps(renderer)
       IN  /\ emitted' = ops
           /\ \E k \in {0, Len(ops) \div 2, Len(ops)} : term' = ApplyOps(term, SubSeq(ops, 1, k))
    /\ renderer' = FlushFailed(renderer)
    /\ lastOp' = OpRec("flush", FALSE, TRUE)
    /\ nops' = nops + 1
    /\ UNCHANGED <<ovars, avars, ivars>>
    /\ UNCHANGED panicked

NextRender ==
    \/ DoClear
    \/ DoRenderChar
    \/ DoRenderLineColored
    \/ DoFlashScreen
    \/ DoUpdateSize
    \/ DoFlush
    \/ DoFlushFail

SpecRender == InitRender /\ [][NextRender]_vars

(***************************************************************************)
(* SpecOverlay: any sequence of process_output and resize calls on one     *)
(* ShellOverlay                                                            *)
(***************************************************************************)
ESC == 27
CSI(bytes) == <<ESC, 91>> \o bytes

\* ESC [ 31 m H i ESC [ 0 m
SgrHi == CSI(<<51, 49, 109>>) \o <<72, 105>> \o CSI(<<48, 109>>)

\* the byte chunks handed to process_output
OverlayChunks ==
    { <<97>>,                       \* a
      SgrHi,
      <<10>>,                       \* LF
      <<13>>,                       \* CR
      <<8>>,                        \* BS
      <<9>>,                        \* HT
      <<12>>,                       \* FF
      CSI(<<50, 59, 50, 72>>),      \* CSI 2;2 H
      CSI(<<50, 48, 48, 59, 50, 48, 48, 72>>),   \* CSI 200;200 H
      CSI(<<65>>),                  \* CSI A
      CSI(<<67>>),                  \* CSI C
      CSI(<<54, 53, 53, 51, 53, 66>>),  \* CSI 65535 B
      CSI(<<74>>),                  \* CSI J
      CSI(<<50, 75>>),              \* CSI 2 K
      CSI(<<51, 49, 109>>),         \* CSI 31 m
      CSI(<<52, 56, 59, 53, 59, 50, 48, 48, 109>>),   \* CSI 48;5;200 m
      CSI(<<63, 50, 53, 108>>),     \* CSI ? 25 l
      CSI(<<115>>),                 \* CSI s
      CSI(<<50, 59, 50, 72>>) \o CSI(<<115>>),   \* CSI 2;2 H CSI s
      CSI(<<117>>),                 \* CSI u
      CSI(<<122>>),                 \* CSI z: no such action
      CSI(<<49, 60, 72>>),          \* CSI 1 < H: ill-formed parameters
      <<ESC, 91, 50>>,              \* CSI 2 ... cut in the middle
      <<74>> }                      \* J

\* the widths of the grid: the small ones, and one that holds a tab stop
TabStop == 8
OverlayWidths == (0 .. MaxCols) \cup {TabStop + 1}
OverlayHeights == 0 .. MaxRows

OverlayLive == ~panicked /\ ncalls < MaxCalls

InitOverlay ==
    /\ \E w \in OverlayWidths, h \in OverlayHeights : state = NewOverlayState(w, h)
    /\ parser = NewParser
    /\ ncalls = 0
    /\ panicked = FALSE
    /\ RenderIdle
    /\ AppIdle
    /\ InputIdle

DoProcessOutput ==
    /\ OverlayLive
    /\ \E data \in OverlayChunks, checks \in OverflowChecks :
          LET ps == ProcessOutput([parser |-> parser, state |-> state], data, checks)
          IN  /\ state' = ps.state
              /\ parser' = ps.parser
              /\ panicked' = ps.state.panic
    /\ ncalls' = ncalls + 1
    /\ UNCHANGED <<rvars, avars, ivars>>

DoResize ==
    /\ OverlayLive
    /\ \E w \in OverlayWidths, h \in OverlayHeights : state' = Resize(state, w, h)
    /\ ncalls' = ncalls + 1
    /\ UNCHANGED <<parser, panicked, rvars, avars, ivars>>

NextOverlay == DoProcessOutput \/ DoResize

SpecOverlay == InitOverlay /\ [][NextOverlay]_vars

(***************************************************************************)
(* SpecApp: App::run on the main thread and the reader thread of the       *)
(* PtyHandler, which share the PTY output channel. What the frame loop     *)
(* draws is the subject of SpecRender; here a drawing call either          *)
(* succeeds or returns the I/O error that ends App::run.                   *)
(***************************************************************************)
\* what one blocking read of the PTY master delivers
ShellReads == { <<>>, <<97>>, CSI(<<63, 50, 53, 108>>) }   \* end of file, a, CSI ? 25 l

\* terminal sizes, as <<width, height>>
AppSizes == { <<1, 1>>, <<MaxCols, 1>> }

Events == {"None", "Resize", "Key", "Other"}

InitApp ==
    /\ \E background_mode \in BOOLEAN, size \in AppSizes :
          /\ app = [(IF background_mode THEN StartingApp ELSE NewApp(FALSE))
                       EXCEPT !.renderer_size = size,
                              !.screen = NewScreen(size[1], size[2], DefaultOverlayCell)]
          /\ state = NewOverlayState(size[1], size[2])
    /\ reader = NoReader
    /\ barrier = 0
    /\ parser = NewParser
    /\ queue = <<>>
    /\ ncalls = 0
    /\ panicked = FALSE
    /\ RenderIdle
    /\ InputIdle

\* PtyHandler::new up to thread::spawn: openpty, spawn_command,
\* try_clone_reader, take_writer, the channel, the barrier, the thread.
\* A failure is returned through ShellManager::new and App::new (`?`).
DoSetupPty ==
    /\ app.pc = "openpty"
    /\ \E res \in SetupResults :
          IF res = "Ok"
          THEN /\ app' = [app EXCEPT !.pc = "spawned",
                                     !.pty_size = <<state.width, state.height>>]
               /\ reader' = SpawnedReader
          ELSE /\ app' = Return([app EXCEPT !.setup = res], "setup_err")
               /\ reader' = reader
    /\ UNCHANGED <<queue, barrier, state, parser, ncalls, panicked, rvars, ivars>>

\* the reader thread starts: barrier_clone.wait()
DoReaderArrive ==
    /\ reader.status = "spawned"
    /\ reader' = [reader EXCEPT !.status = "waiting"]
    /\ barrier' = barrier + 1
    /\ UNCHANGED <<queue, app, state, parser, ncalls, panicked, rvars, ivars>>

\* the reader thread leaves the barrier and enters its loop
DoReaderPass ==
    /\ reader.status = "waiting"
    /\ Released(barrier)
    /\ reader' = [reader EXCEPT !.status = "running"]
    /\ UNCHANGED <<queue, app, barrier, state, parser, ncalls, panicked, rvars, ivars>>

\* the main thread: barrier.wait()
DoMainArrive ==
    /\ app.pc = "spawned"
    /\ app' = [app EXCEPT !.pc = "waiting"]
    /\ barrier' = barrier + 1
    /\ UNCHANGED <<queue, reader, state, parser, ncalls, panicked, rvars, ivars>>

\* the main thread leaves the barrier: PtyHandler::new returns,
\* ShellManager::new sends the setup keystrokes with write_input (result
\* dropped), App::new returns and App::run starts
DoMainPass ==
    /\ app.pc = "waiting"
    /\ Released(barrier)
    /\ app' = [app EXCEPT !.pc = "compose", !.shell_manager = "Some",
                          !.setup = "Ok", !.shell_call = "write_input"]
    /\ UNCHANGED <<queue, reader, barrier, state, parser, ncalls, panicked, rvars, ivars>>

\* the reader thread: one blocking read and what the loop does with it
DoReaderRead ==
    /\ reader.status = "running"
    /\ \E res \in ReadResults, data \in ShellReads :
          /\ (res = "Ok" /\ ~IsEof(Len(data))) => Len(queue) < MaxQueue
          /\ res # "Ok" => data = <<>>
          /\ LET r == ReaderLoop(reader, queue, res, data, app.pty_drop # "released")
             IN  /\ reader' = r.reader
                 /\ queue' = r.queue
    /\ UNCHANGED <<app, state, parser, ncalls, panicked, barrier, rvars, ivars>>

\* top of the loop: renderer.clear()? and the decorative layers, each of
\* which can return the I/O error that ends App::run
DoCompose ==
    /\ app.pc = "compose"
    /\ \E io_ok \in BOOLEAN :
          LET a == [ClearAndDecorate(app) EXCEPT
                      !.pc = IF app.shell_manager = "Some" THEN "drain" ELSE "flush",
                      !.shell_call = "none",
                      !.exit_signal = IF @ = "this_frame" THEN "earlier" ELSE @]
          IN  app' = IF io_ok THEN a ELSE Return(a, "err")
    /\ UNCHANGED <<queue, reader, state, parser, ncalls, panicked, barrier, rvars, ivars>>

\* one turn of the loop that drains the PTY output: read_output, and
\* process_output when it gave a chunk that is not empty
DoReadOutput ==
    /\ app.pc = "drain"
    /\ LET r == ReadOutput(queue, reader.status = "exited")
           got == r.result.ok /\ r.result.data # <<>>
       IN  /\ queue' = r.queue
           /\ \E checks \in OverflowChecks :
                 LET ps == IF got
                           THEN ProcessOutput([parser |-> parser, state |-> state],
                                              r.result.data, checks)
                           ELSE [parser |-> parser, state |-> state]
                     a == [app EXCEPT
                             !.shell_call = "read_output",
                             !.last_read = r.result,
                             !.received = IF r.result.id # NoId THEN NextId(@) ELSE @,
                             !.exit_signal = IF ~r.result.ok /\ @ = "no"
                                             THEN "this_frame" ELSE @,
                             !.pc = IF got THEN "drain" ELSE "render"]
                 IN  /\ state' = ps.state
                     /\ parser' = ps.parser
                     /\ panicked' = ps.state.panic
                     /\ app' = IF ps.state.panic THEN Return(a, "panic") ELSE a
    /\ UNCHANGED <<reader, ncalls, barrier, rvars, ivars>>

\* shell.render(renderer)?
DoShellRender ==
    /\ app.pc = "render"
    /\ \E ok \in BOOLEAN :
          LET a == [ShellRender(app, state) EXCEPT !.pc = "flush"]
              e == [app EXCEPT !.shell_call = "render", !.pc = "flush"]
          IN  app' = IF ok THEN a ELSE Return(e, "err")
    /\ UNCHANGED <<queue, reader, state, parser, ncalls, panicked, barrier, rvars, ivars>>

\* renderer.flush()?, then render_cursor at the shell's cursor
DoFlushFrame ==
    /\ app.pc = "flush"
    /\ \E flush_ok \in BOOLEAN, cursor_ok \in BOOLEAN :
          LET a == [app EXCEPT !.shell_call = "none", !.pc = "poll"]
              c == [a EXCEPT !.shell_call = "get_cursor_pos"]
          IN  app' = IF ~flush_ok THEN Return(a, "err")
                     ELSE IF app.shell_manager = "None" THEN a
                     ELSE IF cursor_ok THEN c ELSE Return(c, "err")
    /\ UNCHANGED <<queue, reader, state, parser, ncalls, panicked, barrier, rvars, ivars>>

\* event::poll(FRAME_DURATION)? and the handling of the event it gave
DoPoll ==
    /\ app.pc = "poll"
    /\ \E ev \in Events, size \in AppSizes, key \in Keys, io_ok \in BOOLEAN,
          pty_ok \in BOOLEAN :
          LET a == [app EXCEPT !.shell_call = "none", !.pc = "compose"]
              h == HandleBackgroundInput(a, key, io_ok, 0)
              m == ManualResize(a, size[1], size[2])
              r == ShellResize(m, state, size[1], size[2], pty_ok)
          IN  CASE ev = "Resize" ->
                     IF ~io_ok
                     THEN /\ app' = Return(a, "err")
                          /\ state' = state
                     ELSE IF app.shell_manager = "None"
                     THEN /\ app' = m
                          /\ state' = state
                     ELSE /\ app' = IF r.ok THEN r.app ELSE Return(r.app, "err")
                          /\ state' = r.state
                [] ev = "Key" ->
                     /\ state' = state
                     /\ app' = IF app.background_mode
                               THEN IF h.err THEN Return(h.app, "err")
                                    ELSE IF h.quit THEN Return(h.app, "ok")
                                    ELSE h.app
                               ELSE IF HandleNormalInput(key) THEN Return(a, "ok")
                                    ELSE a
                [] OTHER ->
                     /\ state' = state
                     /\ app' = IF io_ok THEN a ELSE Return(a, "err")
    /\ UNCHANGED <<queue, reader, parser, ncalls, panicked, barrier, rvars, ivars>>

\* App::run has returned and the App is released, and with it the
\* ShellManager and its PtyHandler. Drop for PtyHandler: send_exit writes
\* the exit command
DoSendExit ==
    /\ app.pc = "done" /\ app.shell_manager = "Some" /\ app.pty_drop = "no"
    /\ \E write_ok \in BOOLEAN : app' = SendExit(app, write_ok)
    /\ UNCHANGED <<queue, reader, state, parser, ncalls, panicked, barrier, rvars, ivars>>

\* send_exit: std::thread::sleep of the grace delay
DoGraceDelay ==
    /\ app.pty_drop = "exit"
    /\ app' = [app EXCEPT !.pty_drop = "slept"]
    /\ UNCHANGED <<queue, reader, state, parser, ncalls, panicked, barrier, rvars, ivars>>

\* drop returns and the fields are released: the PTY master, the child, the
\* receiver and the writer. The chunks left in the channel stay in queue,
\* out of reach.
DoRelease ==
    /\ app.pty_drop = "slept"
    /\ app' = [app EXCEPT !.pty_drop = "released"]
    /\ UNCHANGED <<queue, reader, state, parser, ncalls, panicked, barrier, rvars, ivars>>

MainThread ==
    \/ DoSetupPty \/ DoMainArrive \/ DoMainPass
    \/ DoCompose \/ DoReadOutput \/ DoShellRender \/ DoFlushFrame \/ DoPoll
    \/ DoSendExit \/ DoGraceDelay \/ DoRelease

\* the reader thread before its first read
ReaderStart == DoReaderArrive \/ DoReaderPass

NextApp == DoReaderRead \/ ReaderStart \/ MainThread

\* The main thread runs as long as App::run has not returned, and the
\* spawned thread is scheduled; once in its loop the reader thread blocks
\* in read for as long as the shell is silent.
SpecApp ==
    InitApp /\ [][NextApp]_vars /\ WF_vars(MainThread) /\ WF_vars(ReaderStart)
(***************************************************************************)
(* SpecInput: key_event_to_bytes applied to one key event after another    *)
(***************************************************************************)
\* the characters of KeyCode::Char: a c z C Z, space @ ? [ 1, DEL, and
\* e-acute, the euro sign and an emoji (2, 3 and 4 bytes of UTF-8)
KeyChars == {97, 99, 122, 67, 90, 32, 64, 63, 91, 49, 127, 233, 8364, 128512}

KeyCodes ==
    {"Enter", "Backspace", "Tab", "BackTab", "Esc", "Up", "Down", "Right", "Left",
     "Home", "End", "PageUp", "PageDown", "Delete", "Insert", "Null", "CapsLock"}

MaxFunctionKey == 13

KeyEvents ==
    { KeyEvent("Char", c, 0, m) : c \in KeyChars, m \in SUBSET Modifiers }
        \cup { KeyEvent(code, 0, 0, m) : code \in KeyCodes, m \in SUBSET Modifiers }
        \cup { KeyEvent("F", 0, n, m) : n \in 1 .. MaxFunctionKey, m \in SUBSET Modifiers }

InitInput ==
    /\ InputIdle
    /\ panicked = FALSE
    /\ RenderIdle
    /\ OverlayIdle
    /\ AppIdle

DoKeyEventToBytes ==
    /\ \E key \in KeyEvents :
          /\ key_event' = key
          /\ key_bytes' = KeyEventToBytes(key)
    /\ UNCHANGED <<pty_input, fed, attribution, weather, panicked, rvars, ovars, avars>>

NextInput == DoKeyEventToBytes

SpecInput == InitInput /\ [][NextInput]_vars

(***************************************************************************)
(* SpecKeys: the key events App::run receives in shell mode, one in a      *)
(* frame. The rest of the frame leaves prefix_key_pressed and hide_hud     *)
(* alone.                                                                  *)
(***************************************************************************)
InitKeys ==
    /\ app = [NewApp(TRUE) EXCEPT !.pc = "poll", !.setup = "Ok"]
    /\ InputIdle
    /\ queue = <<>>
    /\ reader = NewReader
    /\ barrier = BarrierParties
    /\ panicked = FALSE
    /\ RenderIdle
    /\ OverlayIdle

\* App::run, Event::Key(key_event) with background_mode set:
\* handle_background_input(key_event)?, and break when it gave true
DoKeyEvent ==
    /\ app.pc = "poll"
    /\ \E key \in KeyEvents \cup Keys, io_ok \in BOOLEAN :
          LET h == HandleBackgroundInput([app EXCEPT !.shell_call = "none"], key, io_ok, 0)
          IN  /\ app' = IF h.err THEN Return(h.app, "err")
                        ELSE IF h.quit THEN Return(h.app, "ok")
                        ELSE h.app
              /\ pty_input' = [key |-> key,
                               forwarded |-> h.app.shell_call = "write_input",
                               written |-> h.written]
    /\ UNCHANGED <<key_event, key_bytes, fed, attribution, weather, queue, reader, barrier, panicked, rvars, ovars>>

NextKeys == DoKeyEvent

SpecKeys == InitKeys /\ [][NextKeys]_vars

(***************************************************************************)
(* SpecChunks: the reader thread hands the bytes of the shell on in        *)
(* chunks cut wherever its reads ended, and App::run gives each chunk to   *)
(* process_output; between two chunks the terminal can be resized          *)
(***************************************************************************)
\* what the shell writes
ShellStreams ==
    << <<195, 169>> \o CSI(<<50, 59, 50, 72>>) \o <<97>>,           \* e-acute, CSI 2;2 H, a
       CSI(<<52, 49, 109>>) \o <<97, 10, 226, 130, 172>>,         \* CSI 41 m, a, LF, euro sign
       <<97>> \o CSI(<<115>>) \o CSI(<<63, 50, 53, 108>>) \o <<97>> \o CSI(<<117>>) >>
                                                                  \* a, CSI s, CSI ? 25 l, a, CSI u

InitChunks ==
    /\ \E w \in 0 .. MaxCols, h \in 0 .. MaxRows : state = NewOverlayState(w, h)
    /\ parser = NewParser
    /\ ncalls = 0
    /\ \E i \in DOMAIN ShellStreams, checks \in OverflowChecks :
          fed = [stream |-> i, pos |-> 0, calls |-> 0, checks |-> checks,
                 resized |-> FALSE]
    /\ key_event = NoKeyEvent
    /\ key_bytes = <<>>
    /\ pty_input = NoInput
    /\ attribution = NoAttribution
    /\ weather = NoWeather
    /\ panicked = FALSE
    /\ RenderIdle
    /\ AppIdle

\* a read of the reader thread ended n bytes further: process_output(chunk)
DoFeedChunk ==
    /\ ~panicked
    /\ fed.pos < Len(ShellStreams[fed.stream])
    /\ \E n \in 1 .. (Len(ShellStreams[fed.stream]) - fed.pos) :
          LET data == SubSeq(ShellStreams[fed.stream], fed.pos + 1, fed.pos + n)
              ps == ProcessOutput([parser |-> parser, state |-> state], data, fed.checks)
          IN  /\ state' = ps.state
              /\ parser' = ps.parser
              /\ panicked' = ps.state.panic
              /\ fed' = [fed EXCEPT !.pos = @ + n, !.calls = @ + 1]
    /\ UNCHANGED <<ncalls, key_event, key_bytes, pty_input, attribution, weather, rvars, avars>>

\* Event::Resize between two frames: ShellOverlay::resize
DoResizeOverlay ==
    /\ ~panicked
    /\ fed.pos < Len(ShellStreams[fed.stream])
    /\ \E w \in 0 .. MaxCols, h \in 0 .. MaxRows : state' = Resize(state, w, h)
    /\ fed' = [fed EXCEPT !.resized = TRUE]
    /\ UNCHANGED <<parser, panicked, ncalls, key_event, key_bytes, pty_input, attribution, weather, rvars, avars>>

NextChunks == DoFeedChunk \/ DoResizeOverlay

SpecChunks == InitChunks /\ [][NextChunks]_vars

(***************************************************************************)
(* SpecAttribution: the attribution line placed for one terminal size      *)
(***************************************************************************)
MaxTermWidth == 34      \* largest terminal width of a frame
MaxTermHeight == 2      \* largest terminal height of a frame

InitAttribution ==
    /\ \E w \in 0 .. MaxTermWidth, h \in 0 .. MaxTermHeight, checks \in OverflowChecks :
          attribution = [NoAttribution EXCEPT !.term_width = w, !.term_height = h,
                                              !.checks = checks]
    /\ weather = NoWeather
    /\ key_event = NoKeyEvent
    /\ key_bytes = <<>>
    /\ pty_input = NoInput
    /\ fed = NoStream
    /\ panicked = FALSE
    /\ RenderIdle
    /\ OverlayIdle
    /\ AppIdle

\* App::run, a frame with background_mode unset: attribution_x and
\* attribution_y of the attribution line
DoPlaceAttribution ==
    /\ ~attribution.drawn
    /\ ~panicked
    /\ \E provider \in DOMAIN ProviderNameLen :
          LET x == AttributionX(attribution.term_width, AttributionLen(provider),
                                attribution.checks)
          IN  IF x = -1
              THEN /\ panicked' = TRUE
                   /\ attribution' = [attribution EXCEPT !.drawn = TRUE]
              ELSE /\ panicked' = FALSE
                   /\ attribution' = [attribution EXCEPT
                          !.x = x, !.y = AttributionY(attribution.term_height),
                          !.drawn = TRUE]
    /\ UNCHANGED <<key_event, key_bytes, pty_input, fed, weather, rvars, ovars, avars>>

NextAttribution == DoPlaceAttribution

SpecAttribution == InitAttribution /\ [][NextAttribution]_vars

(***************************************************************************)
(* SpecWeather: one WeatherClient, called by the task that owns it         *)
(***************************************************************************)
MaxDuration == 2        \* longest cache_duration, in ticks of the clock
MaxClientCalls == 4     \* calls made on the WeatherClient

InitWeather ==
    /\ \E cache_duration \in 0 .. MaxDuration :
          weather = NewWeatherClient(cache_duration)
    /\ attribution = NoAttribution
    /\ key_event = NoKeyEvent
    /\ key_bytes = <<>>
    /\ pty_input = NoInput
    /\ fed = NoStream
    /\ panicked = FALSE
    /\ RenderIdle
    /\ OverlayIdle
    /\ AppIdle

WeatherUnchanged ==
    UNCHANGED <<attribution, key_event, key_bytes, pty_input, fed, panicked,
                rvars, ovars, avars>>

\* weather_client.get_current_weather(&location, &units) is called
DoGetCurrentWeather ==
    /\ weather.pc = "idle"
    /\ weather.calls < MaxClientCalls
    /\ weather' = CacheLookup(weather)
    /\ WeatherUnchanged

\* self.provider.get_current_weather(location, units).await completes
DoProviderReturned ==
    /\ weather.pc = "fetching"
    /\ \E reply \in ProviderReplies : weather' = ProviderReturned(weather, reply)
    /\ WeatherUnchanged

\* weather_client.invalidate_cache() is called
DoInvalidateCache ==
    /\ weather.pc = "idle"
    /\ weather.calls < MaxClientCalls
    /\ weather' = InvalidateCache(weather)
    /\ WeatherUnchanged

\* the clock advances by one tick
DoElapse ==
    /\ weather.cache.some
    /\ weather.cache.age <= MaxDuration
    /\ weather' = Elapse(weather)
    /\ WeatherUnchanged

NextWeather ==
    \/ DoGetCurrentWeather
    \/ DoProviderReturned
    \/ DoInvalidateCache
    \/ DoElapse

SpecWeather == InitWeather /\ [][NextWeather]_vars

(***************************************************************************)
(* Screen Buffer claims (checked under SpecRender)                         *)
(***************************************************************************)
FlushedOk == lastOp.name = "flush" /\ lastOp.ok

SomeCellDrawn == \E i \in 1 .. Len(renderer.buffer) : renderer.buffer[i] # DefaultCell

\* C3: whenever flush returns Ok, the last-flushed grid equals the current
\* grid cell for cell, whatever operations came before.
C3_FlushPostcondition == FlushedOk => renderer.last_buffer = renderer.buffer

\* C3 witness: a successful flush that had something to emit.
C3_Witness == FlushedOk /\ emitted # <<>> /\ SomeCellDrawn

\* C4: a flush that directly follows a successful flush emits no draw
\* operation at all (no cursor move, color set, character or reset).
C4_FlushIdempotent == (lastOp.name = "flush" /\ lastOp.after_flush) => emitted = <<>>

\* C4 witness: a second flush in a row over a grid that holds drawn cells.
C4_Witness == lastOp.name = "flush" /\ lastOp.after_flush /\ SomeCellDrawn

\* C5: if the terminal shows the last-flushed grid with its foreground at
\* default, then after a successful flush's operations it shows exactly the
\* current grid, each character in its cell's color, and its foreground is
\* at default again.
C5_FlushRepaints ==
    [][(/\ term.screen = renderer.last_buffer
        /\ term.fg = Reset
        /\ lastOp'.name = "flush" /\ lastOp'.ok)
       => (term'.screen = renderer'.buffer /\ term'.fg = Reset)]_vars

\* C5 witness: a successful flush that moved the cursor twice on one row,
\* set a color and ended with a reset.
C5_Witness ==
    /\ FlushedOk
    /\ term.screen = renderer.buffer
    /\ \E i, j \in 1 .. Len(emitted) :
          /\ i < j
          /\ emitted[i].op = "MoveTo" /\ emitted[j].op = "MoveTo"
          /\ emitted[i].y = emitted[j].y
    /\ \E i \in 1 .. Len(emitted) : emitted[i].op = "SetForegroundColor"
    /\ emitted[Len(emitted)].op = "ResetColor"

\* C6: for all x and y (up to the largest u16), render_char outside the grid
\* leaves every cell unchanged, and inside the grid changes exactly the cell
\* at (x, y); it always returns Ok.
C6_RenderCharBounds ==
    \A x \in Widths \cup {U16 - 1}, y \in Heights \cup {U16 - 1}, color \in Colors :
        LET r2 == RenderChar(renderer, x, y, LetterX, color)
            n == Len(renderer.buffer)
        IN  /\ r2.width = renderer.width /\ r2.height = renderer.height
            /\ r2.last_buffer = renderer.last_buffer
            /\ Len(r2.buffer) = n
            /\ IF x >= renderer.width \/ y >= renderer.height
               THEN r2.buffer = renderer.buffer
               ELSE \A i \in 1 .. n :
                       r2.buffer[i] = IF i = y * renderer.width + x + 1
                                      THEN Cell(LetterX, color)
                                      ELSE renderer.buffer[i]

\* C6 witness: render_char was called with a coordinate outside a grid that
\* holds drawn cells, and returned Ok.
C6_Witness ==
    lastOp.name = "render_char" /\ lastOp.ok /\ ~lastOp.inb /\ SomeCellDrawn /\ ~panicked


\* a grid of exactly n default cells
AllBlank(grid, n) == Len(grid) = n /\ \A i \in 1 .. n : grid[i] = DefaultCell

\* C26: in every reachable state the current and the last-flushed grid hold
\* exactly width x height cells; update_size to a different size replaces
\* both by all-blank grids of the new size, and to the same size changes
\* nothing.
C26_GridSize ==
    /\ Len(renderer.buffer) = renderer.width * renderer.height
    /\ Len(renderer.last_buffer) = renderer.width * renderer.height
    /\ \A w \in Widths, h \in Heights :
          \A r2 \in {UpdateSize(renderer, w, h)} :
              IF w = renderer.width /\ h = renderer.height
              THEN r2 = renderer
              ELSE /\ r2.width = w /\ r2.height = h
                   /\ AllBlank(r2.buffer, w * h)
                   /\ AllBlank(r2.last_buffer, w * h)

\* C26 witness: right after a successful flush the terminal took another
\* size and update_size replaced the grids (it cleared the terminal).
C26_Witness ==
    /\ lastOp.name = "update_size" /\ lastOp.after_flush
    /\ emitted = <<ClearAll>>
    /\ renderer = NewRenderer(MaxWidth, 1)

\* the operation of this step is not a flush and not update_size
DrawStep == nops' = nops + 1 /\ lastOp'.name \notin {"flush", "update_size"}

CurrentGridAfter ==
    LET n == Len(renderer.buffer)
        differ == {i \in 1 .. n : renderer'.buffer[i] # renderer.buffer[i]}
    IN  /\ Len(renderer'.buffer) = n
        /\ lastOp'.name = "clear" => AllBlank(renderer'.buffer, n)
        /\ lastOp'.name = "render_char" =>
              /\ Cardinality(differ) <= 1
              /\ lastOp'.inb => \E i \in 1 .. n : renderer'.buffer[i].character = LetterX
        /\ lastOp'.name = "flash_screen" =>
              \A i \in 1 .. n :
                  renderer'.buffer[i] = Cell(renderer.buffer[i].character, White)

\* C27: only flush and update_size touch the last-flushed grid. clear makes
\* every current cell the default cell, render_char writes one current
\* cell, flash_screen gives every current cell the flash color and keeps
\* its character; none of them changes the last-flushed grid or sends
\* anything to the terminal.
C27_DrawOnlyCurrent ==
    [][DrawStep =>
          /\ renderer'.last_buffer = renderer.last_buffer
          /\ emitted' = <<>>
          /\ term' = term
          /\ CurrentGridAfter]_vars

\* C27 witness: a red x was drawn and flushed, and flash_screen then made
\* the current cell white while the last-flushed one stayed red.
C27_Witness ==
    /\ lastOp.name = "flash_screen" /\ lastOp.after_flush
    /\ \E i \in 1 .. Len(renderer.buffer) :
          /\ renderer.buffer[i] = Cell(LetterX, White)
          /\ renderer.last_buffer[i] = Cell(LetterX, Red)

\* the positions (row-major, from 0) of the cells of r that differ from the
\* last-flushed grid, in ascending order
RECURSIVE Ascending(_)
Ascending(S) ==
    IF S = {} THEN <<>>
    ELSE LET m == CHOOSE i \in S : \A j \in S : i <= j
         IN  <<m>> \o Ascending(S \ {m})

Differing(r) ==
    Ascending({i \in 0 .. Len(r.buffer) - 1 : r.buffer[i + 1] # r.last_buffer[i + 1]})

\* what a minimal flush sends for the k-th differing cell
SentFor(r, cells, k) ==
    LET i == cells[k]
        x == i % r.width
        y == i \div r.width
        cell == r.buffer[i + 1]
        follows == k > 1 /\ cells[k - 1] = i - 1 /\ x > 0
        color_before == IF k = 1 THEN Reset ELSE r.buffer[cells[k - 1] + 1].color
    IN  (IF follows THEN <<>> ELSE <<MoveTo(x, y)>>)
            \o (IF cell.color = color_before THEN <<>> ELSE <<SetForegroundColor(cell.color)>>)
            \o <<PrintChar(cell.character)>>

RECURSIVE SentUpTo(_, _, _)
SentUpTo(r, cells, k) ==
    IF k = 0 THEN <<>> ELSE SentUpTo(r, cells, k - 1) \o SentFor(r, cells, k)

Minimal(r) == SentUpTo(r, Differing(r), Len(Differing(r)))

\* C28: flush sends a character for a cell exactly when the cell differs
\* from the last-flushed grid, in row-major order; a cursor move before it
\* exactly when the cell sent before is not the one to its left on the
\* same row; a color exactly when the cell's color differs from the color
\* sent last (the default at the start of the flush).
C28_FlushMinimal ==
    [][(nops' = nops + 1 /\ lastOp'.name = "flush") =>
          LET expected == Minimal(renderer)
              n == Len(expected)
          IN  /\ Len(emitted') >= n
              /\ SubSeq(emitted', 1, n) = expected
              /\ \A i \in n + 1 .. Len(emitted') : emitted'[i] = ResetColor]_vars

\* C28 witness: a flush sent two cells of the first row after one cursor
\* move and moved again for the first cell of the second row.
C28_Witness ==
    /\ FlushedOk
    /\ \E i \in 1 .. Len(emitted) - 2 :
          /\ emitted[i].op = "Print" /\ emitted[i + 1].op = "Print"
          /\ emitted[i + 2] = MoveTo(0, 1)

FlushFailedNow == lastOp.name = "flush" /\ ~lastOp.ok

\* C37: a flush whose output fails returns the error with the last-flushed
\* grid (and the current grid) as they were before the call, whatever part
\* of the output had reached the terminal, and the error is fatal: no
\* operation on the renderer follows it.
C37_FlushFailure ==
    /\ [][(lastOp'.name = "flush" /\ ~lastOp'.ok /\ nops' = nops + 1)
             => (/\ renderer'.last_buffer = renderer.last_buffer
                 /\ renderer'.buffer = renderer.buffer)]_vars
    /\ [][~FlushFailedNow]_vars

\* a flush failed after all of its output had reached the terminal: the
\* terminal shows the current grid, the last-flushed grid is the old one
C37_Witness ==
    /\ FlushFailedNow
    /\ emitted # <<>>
    /\ renderer.last_buffer # renderer.buffer
    /\ term.screen = renderer.buffer
(***************************************************************************)
(* Interpreter claims (checked under SpecOverlay)                          *)
(***************************************************************************)
\* C1: after any calls of process_output and resize, the cursor column is in
\* [0, width) and the cursor row in [0, height) of the current grid (stated
\* for the grids that have a cell), also when CSI u restores a position that
\* was saved on a larger grid.
C1_CursorInGrid ==
    (state.width > 0 /\ state.height > 0 /\ ~state.panic)
        => (state.cursor_x < state.width /\ state.cursor_y < state.height)

\* the byte sequences that end in no known action or hold an ill-formed
\* parameter list
IgnoredSequences == { CSI(<<122>>), CSI(<<53, 59, 53, 122>>), CSI(<<49, 60, 72>>) }

\* C2: interpretation never panics, whatever the bytes and the grid size, and
\* a CSI sequence with an unrecognized final letter or ill-formed parameters
\* leaves the whole interpreter state as it was.
C2_Totality ==
    /\ ~state.panic
    /\ parser = NewParser =>
          \A data \in IgnoredSequences, checks \in OverflowChecks :
              ProcessOutput([parser |-> parser, state |-> state], data, checks)
                  = [parser |-> NewParser, state |-> state]


\* the interpreter is between two sequences, on a grid that has a cell, with
\* the cursor on a cell
AtRest ==
    /\ ~state.panic
    /\ parser = NewParser
    /\ state.width > 0 /\ state.height > 0
    /\ state.cursor_x < state.width /\ state.cursor_y < state.height

\* the OverlayState after the bytes of data
After(data, checks) ==
    ProcessOutput([parser |-> parser, state |-> state], data, checks).state

\* the state with cell at column x of row y (both counted from 0)
WithCell(s, x, y, cell) == [s EXCEPT !.cells[y + 1][x + 1] = cell]

\* the cells after a scroll by one row
Scrolled(s) == Append(Tail(s.cells), BlankRow(s.width))

\* the cursor one column further: wrapped at the end of the row, with a
\* scroll at the end of the last row
Advanced(s) ==
    IF s.cursor_x + 1 < s.width THEN [s EXCEPT !.cursor_x = s.cursor_x + 1]
    ELSE IF s.cursor_y + 1 < s.height
    THEN [s EXCEPT !.cursor_x = 0, !.cursor_y = s.cursor_y + 1]
    ELSE [s EXCEPT !.cursor_x = 0, !.cells = Scrolled(s)]

PrintedGlyphs == {72, 97, 233}

\* the bytes (UTF-8) of a glyph
Utf8(c) == IF c < 128 THEN <<c>> ELSE <<192 + (c \div 64), 128 + (c % 64)>>

\* C14: print(c) stores c at the cursor cell with the pending foreground
\* and background, changes no other cell, and advances the column by one,
\* wrapping to column 0 of the next row (the advance past the last row
\* scrolls). Pending colors last until an SGR changes them: after SGR 31,
\* H, i, SGR 0 the cells of H and i are red and a glyph printed next has
\* the default colors.
C14_PrintPendingColors ==
    AtRest =>
        \A checks \in OverflowChecks :
            /\ \A c \in PrintedGlyphs :
                  After(Utf8(c), checks) =
                      Advanced(WithCell(state, state.cursor_x, state.cursor_y,
                                        OverlayCell(c, state.current_fg_color,
                                                    state.current_bg_color)))
            /\ (state.cursor_x + 3 < state.width) =>
                  LET r == After(SgrHi \o <<97>>, checks)
                      x == state.cursor_x
                      y == state.cursor_y
                  IN  /\ r.cells[y + 1][x + 1] = OverlayCell(72, Red, state.current_bg_color)
                      /\ r.cells[y + 1][x + 2] = OverlayCell(105, Red, state.current_bg_color)
                      /\ r.cells[y + 1][x + 3] = OverlayCell(97, Reset, Reset)
                      /\ r.current_fg_color = Reset /\ r.current_bg_color = Reset

\* SGR 31, H, i, SGR 0 and then a glyph were interpreted on a grid wide
\* enough for the three of them
C14_Witness ==
    /\ AtRest
    /\ state.width >= 3
    /\ state.cells[1][1] = OverlayCell(72, Red, Reset)
    /\ state.cells[1][2] = OverlayCell(105, Red, Reset)
    /\ state.cells[1][3] = OverlayCell(97, Reset, Reset)
    /\ state.cursor_x = 3

\* the grid is exactly width x height
GridShape(s) ==
    /\ Len(s.cells) = s.height
    /\ \A y \in 1 .. s.height : Len(s.cells[y]) = s.width

\* the column of the next tab stop
NextTabStop(x) == ((x \div TabStop) + 1) * TabStop

\* C15: when a print wrap, a Tab wrap or a Line Feed would take the cursor
\* past the last row, the grid scrolls by exactly one row: row i becomes
\* the old row i+1, the old row 0 is dropped, the last row is blank, the
\* cursor stays on the last row and the grid keeps its width and height.
C15_ScrollByOne ==
    (AtRest /\ state.cursor_y = state.height - 1) =>
        \A checks \in OverflowChecks :
            LET lf == After(<<10>>, checks)
                tab == After(<<9>>, checks)
                pr == After(<<97>>, checks)
                glyph == WithCell(state, state.cursor_x, state.cursor_y,
                                  OverlayCell(97, state.current_fg_color,
                                              state.current_bg_color))
            IN  /\ lf = [state EXCEPT !.cells = Scrolled(state)]
                /\ GridShape(lf) /\ lf.cells[state.height] = BlankRow(state.width)
                /\ NextTabStop(state.cursor_x) >= state.width =>
                      /\ tab = [state EXCEPT !.cells = Scrolled(state), !.cursor_x = 0]
                      /\ GridShape(tab)
                /\ state.cursor_x = state.width - 1 =>
                      /\ pr = [state EXCEPT !.cells = Scrolled(glyph), !.cursor_x = 0]
                      /\ GridShape(pr) /\ pr.cells[state.height] = BlankRow(state.width)

\* one call printed H and i on a grid of one column and two rows: the
\* second wrap scrolled H away
C15_Witness ==
    /\ AtRest
    /\ ncalls = 1
    /\ state.width = 1 /\ state.height = 2
    /\ state.cells[1][1] = OverlayCell(105, Red, Reset)
    /\ state.cells[2] = BlankRow(1)
    /\ state.cursor_y = 1

\* the cursor on the next row, with a scroll after the last row
RowBelow(s) ==
    IF s.cursor_y + 1 < s.height THEN [s EXCEPT !.cursor_y = s.cursor_y + 1]
    ELSE [s EXCEPT !.cells = Scrolled(s)]

\* the control bytes execute gives no meaning to (ESC opens a sequence)
OtherControls == (0 .. 31) \ {8, 9, 10, 12, 13, ESC}

\* C16: Backspace takes one off the column and does nothing at column 0;
\* Tab goes to the next multiple of 8, or, when that is >= width, to
\* column 0 of the next row, scrolling after the last row; Line Feed goes
\* to the next row (scrolling after the last one) and keeps the column;
\* Carriage Return sets the column to 0 and keeps the row; Form Feed
\* blanks every cell and homes the cursor; every other control byte
\* changes nothing. Backspace, Tab, Line Feed and Carriage Return change
\* no cell except by scrolling.
C16_ControlBytes ==
    AtRest =>
        \A checks \in OverflowChecks :
            /\ After(<<8>>, checks) =
                  [state EXCEPT !.cursor_x = IF @ > 0 THEN @ - 1 ELSE 0]
            /\ After(<<9>>, checks) =
                  IF NextTabStop(state.cursor_x) < state.width
                  THEN [state EXCEPT !.cursor_x = NextTabStop(state.cursor_x)]
                  ELSE RowBelow([state EXCEPT !.cursor_x = 0])
            /\ After(<<10>>, checks) = RowBelow(state)
            /\ After(<<13>>, checks) = [state EXCEPT !.cursor_x = 0]
            /\ After(<<12>>, checks) =
                  [state EXCEPT !.cells = BlankCells(state.width, state.height),
                                !.cursor_x = 0, !.cursor_y = 0]
            /\ \A b \in OtherControls : After(<<b>>, checks) = state
            /\ \A b \in (0 .. 255) \ {8, 9, 10, 12, 13} : Execute(state, b, checks) = state

\* one call moved the cursor of a blank grid of 9 columns to the tab stop
\* at column 8
C16_Witness ==
    /\ AtRest
    /\ ncalls = 1
    /\ state.width = TabStop + 1
    /\ state.cursor_x = TabStop
    /\ state.cells = BlankCells(state.width, state.height)

\* the interpreter is between two sequences on a grid that has a cell
Ground ==
    /\ ~state.panic
    /\ parser = NewParser
    /\ state.width > 0 /\ state.height > 0

\* a number in decimal digits
RECURSIVE Digits(_)
Digits(n) == IF n < 10 THEN <<48 + n>> ELSE Digits(n \div 10) \o <<48 + (n % 10)>>

\* a parameter as it is written: nothing for an absent one (-1)
Absent == 0 - 1
Written(p) == IF p = Absent THEN <<>> ELSE Digits(p)

\* the value a parameter stands for, an absent one standing for dflt;
\* the parser keeps at most 65535
Meant(p, dflt) == IF p = Absent THEN dflt ELSE IF p >= U16 THEN U16 - 1 ELSE p

Max(a, b) == IF a > b THEN a ELSE b
Least(a, b) == IF a <= b THEN a ELSE b

ParamValues == {Absent, 0, 1, 2, 200, 70000}
ColumnValues == {Absent, 0, 2, 70000}

\* C17: CSI r ; c H (or f) puts the cursor on row min(max(r,1)-1, height-1)
\* and column min(max(c,1)-1, width-1), an absent parameter counting as 1,
\* on every grid and for every pair of parameters (so row 200 on a grid of
\* 40 rows gives row 39), and changes no cell.
C17_CursorPosition ==
    Ground =>
        \A r \in ParamValues, c \in ColumnValues, checks \in OverflowChecks :
            LET row == Least(Max(Meant(r, 1), 1) - 1, state.height - 1)
                col == Least(Max(Meant(c, 1), 1) - 1, state.width - 1)
                to == [state EXCEPT !.cursor_y = row, !.cursor_x = col]
            IN  /\ After(CSI(Written(r) \o <<59>> \o Written(c) \o <<72>>), checks) = to
                /\ c = Absent => After(CSI(Written(r) \o <<72>>), checks) = to
                /\ c = r => After(CSI(Written(r) \o <<59>> \o Written(c) \o <<102>>), checks) = to

\* one call put the cursor of a blank grid of 9 columns and 2 rows on its
\* last cell: CSI 200;200 H, clamped
C17_Witness ==
    /\ Ground
    /\ ncalls = 1
    /\ state.width = TabStop + 1 /\ state.height = 2
    /\ state.cursor_x = TabStop /\ state.cursor_y = 1
    /\ state.cells = BlankCells(state.width, state.height)

MoveValues == {Absent, 0, 1, 2, U16 - 1}

\* C18: CSI n A / B / C / D move the cursor up / down / forward / back by
\* n (1 when n is absent), clamped to the grid; the other coordinate, the
\* cells and the rest of the state are unchanged, and nothing scrolls.
C18_RelativeMoves ==
    AtRest =>
        \A p \in MoveValues, checks \in OverflowChecks :
            LET n == Meant(p, 1)
                x == state.cursor_x
                y == state.cursor_y
            IN  /\ After(CSI(Written(p) \o <<65>>), checks)
                      = [state EXCEPT !.cursor_y = Max(y - n, 0)]
                /\ After(CSI(Written(p) \o <<66>>), checks)
                      = [state EXCEPT !.cursor_y = Least(y + n, state.height - 1)]
                /\ After(CSI(Written(p) \o <<67>>), checks)
                      = [state EXCEPT !.cursor_x = Least(x + n, state.width - 1)]
                /\ After(CSI(Written(p) \o <<68>>), checks)
                      = [state EXCEPT !.cursor_x = Max(x - n, 0)]

\* the cells with those that blanked(x, y) selects made blank
BlankedWhere(s, blanked(_, _)) ==
    [y \in 1 .. s.height |->
        [x \in 1 .. s.width |->
            IF blanked(x - 1, y - 1) THEN DefaultOverlayCell ELSE s.cells[y][x]]]

FromCursor(x, y) ==
    \/ y = state.cursor_y /\ x >= state.cursor_x
    \/ y > state.cursor_y

EveryCell(x, y) == TRUE

\* C19: CSI J with parameter 0 or none blanks exactly the cells from the
\* cursor to the end of its row and the rows below, and keeps the cursor;
\* with 2 or 3 it blanks every cell and homes the cursor; with 1 or any
\* other value it changes nothing. CSI 2 J CSI H leaves a blank grid with
\* the cursor at (0,0).
C19_EraseDisplay ==
    AtRest =>
        \A checks \in OverflowChecks :
            LET toEnd == [state EXCEPT !.cells = BlankedWhere(state, FromCursor)]
                all == [state EXCEPT !.cells = BlankedWhere(state, EveryCell),
                                     !.cursor_x = 0, !.cursor_y = 0]
            IN  /\ \A p \in {Absent, 0} : After(CSI(Written(p) \o <<74>>), checks) = toEnd
                /\ \A p \in {2, 3} : After(CSI(Written(p) \o <<74>>), checks) = all
                /\ \A p \in {1, 4, 200} : After(CSI(Written(p) \o <<74>>), checks) = state
                /\ After(CSI(<<50, 74>>) \o CSI(<<72>>), checks) = all

\* H and i were printed, Backspace put the cursor on i, and CSI J blanked
\* it and kept H
C19_Witness ==
    /\ AtRest
    /\ ncalls = 3
    /\ state.width = TabStop + 1
    /\ state.cells[1][1] = OverlayCell(72, Red, Reset)
    /\ state.cells[1][2] = DefaultOverlayCell
    /\ state.cursor_x = 1 /\ state.cursor_y = 0

RowFromCursor(x, y) == y = state.cursor_y /\ x >= state.cursor_x

CursorRow(x, y) == y = state.cursor_y

\* C20: CSI K with parameter 0 or none blanks exactly the cells of the
\* cursor's row from the cursor column on; with 2 exactly the cursor's
\* row; with 1 or any other value nothing. The cursor and the other rows
\* stay as they were.
C20_EraseLine ==
    AtRest =>
        \A checks \in OverflowChecks :
            /\ \A p \in {Absent, 0} :
                  After(CSI(Written(p) \o <<75>>), checks)
                      = [state EXCEPT !.cells = BlankedWhere(state, RowFromCursor)]
            /\ After(CSI(<<50, 75>>), checks)
                  = [state EXCEPT !.cells = BlankedWhere(state, CursorRow)]
            /\ \A p \in {1, 3, 200} : After(CSI(Written(p) \o <<75>>), checks) = state

\* SGR 31, a glyph, and CSI 2 K, which blanked the glyph behind the cursor
C20_Witness ==
    /\ AtRest
    /\ ncalls = 3
    /\ state.width = TabStop + 1 /\ state.height = 2
    /\ state.current_fg_color = Red
    /\ state.cells = BlankCells(state.width, state.height)
    /\ state.cursor_x = 1 /\ state.cursor_y = 0

\* a parameter list as it is written: the numbers, separated by ;
RECURSIVE Separated(_)
Separated(params) ==
    IF Len(params) = 0 THEN <<>>
    ELSE IF Len(params) = 1 THEN Digits(params[1])
    ELSE Digits(params[1]) \o <<59>> \o Separated(Tail(params))

\* CSI params m
Sgr(params) == CSI(Separated(params) \o <<109>>)

\* the state with the pending colors replaced: <<>> keeps one as it is
Pending(s, fg, bg) ==
    [s EXCEPT !.current_fg_color = IF fg = <<>> THEN @ ELSE fg[1],
              !.current_bg_color = IF bg = <<>> THEN @ ELSE bg[1]]

NamedColors ==
    { Named(k) : k \in {"Black", "Red", "Green", "Yellow", "Blue", "Magenta",
                        "Cyan", "White", "DarkGrey"} }

\* parameter lists with the pending foreground and background they give
SgrExamples ==
    { <<<<0>>, <<Reset>>, <<Reset>>>>,
      <<<<31>>, <<Red>>, <<>>>>,
      <<<<97>>, <<White>>, <<>>>>,
      <<<<41>>, <<>>, <<Red>>>>,
      <<<<39>>, <<Reset>>, <<>>>>,
      <<<<49>>, <<>>, <<Reset>>>>,
      <<<<31, 0, 47>>, <<Reset>>, <<White>>>>,
      <<<<31, 4, 107, 41>>, <<Red>>, <<Red>>>>,
      <<<<38, 5, 200>>, <<AnsiValue(200)>>, <<>>>>,
      <<<<48, 5, 31, 37>>, <<White>>, <<AnsiValue(31)>>>>,
      <<<<38, 2, 31, 41, 0, 47>>, <<Rgb(31, 41, 0)>>, <<White>>>>,
      <<<<48, 2, 1, 2, 3, 31>>, <<Red>>, <<Rgb(1, 2, 3)>>>>,
      <<<<38>>, <<>>, <<>>>>,
      <<<<38, 5>>, <<>>, <<>>>>,
      <<<<38, 2>>, <<>>, <<>>>>,
      <<<<48>>, <<>>, <<>>>>,
      <<<<48, 2, 31, 41>>, <<>>, <<>>>>,
      <<<<41, 38, 5>>, <<>>, <<Red>>>> }

\* single codes tried: the reset, attributes, every color code with its
\* neighbours, and codes above the bright foregrounds
SgrCodes == (0 .. 2) \cup (29 .. 50) \cup (89 .. 98) \cup {107, 110}

\* C21: SGR reads its parameters from left to right: 0 resets both pending
\* colors, 30-37 and 90-97 set the foreground, 40-47 the background, 39 and
\* 49 reset one of them, 38;5;N / 48;5;N take three parameters for an
\* indexed color, 38;2;R;G;B / 48;2;R;G;B five for a true color, any other
\* code is ignored and the parameters after it are still read; a 38 / 48
\* group cut short leaves the pending colors; SGR changes no cell and no
\* cursor.
C21_SgrParameters ==
    Ground =>
        \A checks \in OverflowChecks :
            /\ \A e \in SgrExamples : After(Sgr(e[1]), checks) = Pending(state, e[2], e[3])
            /\ \A code \in SgrCodes :
                  LET r == After(Sgr(<<code>>), checks)
                      sets_fg == code \in (30 .. 37) \cup (90 .. 97)
                      sets_bg == code \in 40 .. 47
                  IN  /\ r.cells = state.cells
                      /\ r.cursor_x = state.cursor_x /\ r.cursor_y = state.cursor_y
                      /\ sets_fg => (r.current_fg_color \in NamedColors
                                        /\ r = Pending(state, <<r.current_fg_color>>, <<>>))
                      /\ sets_bg => (r.current_bg_color \in NamedColors
                                        /\ r = Pending(state, <<>>, <<r.current_bg_color>>))
                      /\ code \notin (30 .. 49) \cup (90 .. 97) \cup {0} => r = state

\* SGR 31 and SGR 48;5;200 set both pending colors of a blank grid
C21_Witness ==
    /\ Ground
    /\ ncalls = 2
    /\ state.current_fg_color = Red
    /\ state.current_bg_color = AnsiValue(200)
    /\ state.cells = BlankCells(state.width, state.height)
    /\ state.cursor_x = 0 /\ state.cursor_y = 0

SaveCursor == CSI(<<115>>)
RestoreSaved == CSI(<<117>>)
GoHome == CSI(<<72>>)
GoFar == CSI(<<50, 48, 48, 59, 50, 48, 48, 72>>)

\* C23: there is one saved cursor slot. CSI s stores the cursor position
\* over whatever was saved before; CSI u puts the cursor on the position
\* saved last ((0,0) when nothing was saved) and keeps the slot, so a
\* second restore gives the same position. Neither changes a cell or a
\* color.
C23_SavedCursorSlot ==
    Ground =>
        \A checks \in OverflowChecks :
            LET saved == [state EXCEPT !.saved_cursor_x = state.cursor_x,
                                       !.saved_cursor_y = state.cursor_y]
                restored == [state EXCEPT !.cursor_x = state.saved_cursor_x,
                                          !.cursor_y = state.saved_cursor_y]
                last == [state EXCEPT !.cursor_x = state.width - 1,
                                      !.cursor_y = state.height - 1,
                                      !.saved_cursor_x = state.width - 1,
                                      !.saved_cursor_y = state.height - 1]
            IN  /\ After(SaveCursor, checks) = saved
                /\ After(RestoreSaved, checks) = restored
                /\ After(RestoreSaved \o RestoreSaved, checks) = restored
                /\ After(RestoreSaved \o GoHome \o RestoreSaved, checks) = restored
                /\ After(SaveCursor \o GoHome \o RestoreSaved, checks) = saved
                /\ After(SaveCursor \o GoFar \o SaveCursor \o GoHome \o RestoreSaved
                            \o GoHome \o RestoreSaved, checks) = last
                /\ ncalls = 0 =>
                      After(GoFar \o RestoreSaved, checks) = state

\* CSI 2;2 H and CSI s saved the second cell of the second row, Carriage
\* Return took the cursor to column 0 and CSI u brought it back
C23_Witness ==
    /\ Ground
    /\ ncalls = 3
    /\ state.saved_cursor_x = 1 /\ state.saved_cursor_y = 1
    /\ state.cursor_x = 1 /\ state.cursor_y = 1
    /\ state.cells = BlankCells(state.width, state.height)
    /\ state.current_fg_color = Reset

\* C24: resize(w, h) resets the interpreter's grid from any state: the
\* grid then has exactly h rows of w cells, every cell is the default blank
\* cell, and the cursor is at (0,0).
C24_ResizeResets ==
    \A w \in OverlayWidths, h \in OverlayHeights :
        LET r == Resize(state, w, h)
        IN  /\ r.width = w /\ r.height = h
            /\ GridShape(r)
            /\ \A y \in 1 .. h : \A x \in 1 .. w : r.cells[y][x] = DefaultOverlayCell
            /\ r.cursor_x = 0 /\ r.cursor_y = 0

\* the cursor was put on the second cell of the second row and saved
\* there, and a resize to one cell homed it
C24_Witness ==
    /\ ncalls = 2
    /\ state.width = 1 /\ state.height = 1
    /\ state.saved_cursor_x = 1 /\ state.saved_cursor_y = 1
    /\ state.cursor_x = 0 /\ state.cursor_y = 0
    /\ state.cells = BlankCells(1, 1)

\* what the decorative scene wrote on a screen of the grid's size, or of one
\* column less: nothing, or a white x in every cell
Scenes(s) ==
    { NewScreen(w, s.height, cell) :
        w \in {s.width, s.width - 1} \cap Nat,
        cell \in {DefaultOverlayCell, OverlayCell(LetterX, White, Reset)} }

\* a cell of the overlay lets the scene show through
Transparent(cell) == cell.character = Space /\ cell.bg_color = Reset

\* the screen after the overlay s was composed onto scr, cell by cell
Composed(s, scr) ==
    [y \in 1 .. scr.height |->
        [x \in 1 .. scr.width |->
            IF x <= s.width /\ y <= s.height /\ ~Transparent(s.cells[y][x])
            THEN s.cells[y][x]
            ELSE scr.cells[y][x]]]

\* C25: when the grid is composed onto the Screen Buffer, a cell is skipped
\* (the Screen Buffer keeps what the scene wrote there) exactly when its
\* character is the space and its background the default, whatever its
\* foreground; every other cell replaces the Screen Buffer cell at its
\* coordinate with its character and colors.
C25_Transparency ==
    ~state.panic =>
        /\ \A scr \in Scenes(state) :
              Render(state, scr) = [scr EXCEPT !.cells = Composed(state, scr)]
        /\ (AtRest /\ state.cursor_x + 1 < state.width) =>
              \A checks \in OverflowChecks, scr \in Scenes(state) :
                  LET x == state.cursor_x
                      y == state.cursor_y
                      red == After(Sgr(<<31, 49>>) \o <<32>>, checks)
                      on_red == After(Sgr(<<41>>) \o <<32>>, checks)
                  IN  /\ red.cells[y + 1][x + 1] = OverlayCell(Space, Red, Reset)
                      /\ x < scr.width =>
                            /\ Render(red, scr).cells[y + 1][x + 1] = scr.cells[y + 1][x + 1]
                            /\ Render(on_red, scr).cells[y + 1][x + 1]
                                  = on_red.cells[y + 1][x + 1]

\* a was printed on the indexed background next to a blank cell
C25_Witness ==
    /\ AtRest
    /\ ncalls = 2
    /\ state.width = 2
    /\ state.cells[1][1] = OverlayCell(97, Reset, AnsiValue(200))
    /\ state.cells[1][2] = DefaultOverlayCell

LargeMoves == {0, 1, 2, U16 - 2, U16 - 1}

\* C35: for every cursor position and every parameter n from 0 to 65535,
\* CSI n B leaves the row at min(row + n, height - 1) and CSI n C the column
\* at min(column + n, width - 1), in a build with overflow checks and in
\* one without: a large n does not panic and never moves the cursor up or
\* back.
C35_LargeMoves ==
    AtRest =>
        \A n \in LargeMoves, checks \in OverflowChecks :
            LET down == After(CSI(Digits(n) \o <<66>>), checks)
                forward == After(CSI(Digits(n) \o <<67>>), checks)
            IN  /\ ~down.panic /\ ~forward.panic
                /\ down.cursor_y = Least(state.cursor_y + n, state.height - 1)
                /\ down.cursor_y >= state.cursor_y
                /\ forward.cursor_x = Least(state.cursor_x + n, state.width - 1)
                /\ forward.cursor_x >= state.cursor_x

(***************************************************************************)
(* Claims about the PTY bridge and the frame loop (SpecApp)                *)
(***************************************************************************)
\* the channel holds, oldest first, exactly the chunks read and not yet received
QueueInOrder ==
    /\ Len(queue) = (reader.sent - app.received) % IdWindow
    /\ \A i \in 1 .. Len(queue) : queue[i].id = (app.received + i - 1) % IdWindow

ExitedOnlyWhenDrained ==
    ~app.last_read.ok => (reader.status = "exited" /\ queue = <<>>)

\* a step of the main thread that calls read_output
ReadStep == app.pc = "drain" /\ app' # app

ReadGivesOneOfThree ==
    ReadStep =>
        LET r == app'.last_read
        IN  \/ /\ queue # <<>>
               /\ r = OkData(app.received, Head(queue).data)
               /\ Head(queue).id = app.received
               /\ queue' = Tail(queue)
            \/ /\ queue = <<>> /\ reader.status # "exited"
               /\ r = OkData(NoId, <<>>)
               /\ queue' = queue
            \/ /\ queue = <<>> /\ reader.status = "exited"
               /\ r = BrokenPipe
               /\ queue' = queue

\* C7: read_output never blocks and gives the oldest queued chunk, or an
\* empty result when the channel is open and empty, or the exited signal;
\* chunks come out in the order the reader thread read them, none lost and
\* none twice, and the exited signal comes only when the reader has closed
\* the channel and every chunk sent before has been given out.
C7_QueueSemantics ==
    /\ [](QueueInOrder /\ ExitedOnlyWhenDrained)
    /\ [](app.pc = "drain" => ENABLED DoReadOutput)
    /\ [][ReadGivesOneOfThree]_vars

\* two chunks were given out and then the exited signal
C7_Witness ==
    /\ ~app.last_read.ok
    /\ app.received = 2
    /\ reader.sent = 2

\* C8: once read_output has given the exited signal, the frame loop ends
\* shell mode: in the frames that follow it makes no call on the shell
\* (no read, no input forwarded, no overlay composed).
C8_ExitEndsShellMode ==
    app.exit_signal = "earlier" => app.shell_call = "none"

\* C9: every iteration of the frame loop reaches the flush and the poll
\* (or App::run returns), whatever the reader thread and the shell do.
C9_FrameReachesPoll ==
    (app.pc = "compose") ~> (app.pc \in {"poll", "done"})

NoEmptyChunk == \A i \in 1 .. Len(queue) : queue[i].data # <<>>

ReaderExits ==
    /\ reader.last = "Interrupted" => reader.status = "running"
    /\ reader.last \in {"Eof", "Err"} => reader.status = "exited"

\* a step of the reader thread
ReaderStep == reader' # reader

ReaderForwards ==
    ReaderStep =>
        IF reader'.last = "Ok"
        THEN /\ Len(queue') = Len(queue) + 1
             /\ SubSeq(queue', 1, Len(queue)) = queue
             /\ queue'[Len(queue')].id = reader.sent
        ELSE queue' = queue

\* C10: the reader thread forwards every chunk of length > 0 and never
\* queues an empty chunk; it reads again after an interrupted read; at end
\* of file or any other read error it exits and closes the channel, and
\* then read_output eventually gives the exited signal (as long as the
\* frame loop runs).
C10_ReaderProtocol ==
    /\ [](NoEmptyChunk /\ ReaderExits)
    /\ [][ReaderForwards]_vars
    /\ (reader.status = "exited") ~> (~app.last_read.ok \/ app.pc = "done")

\* the reader forwarded a chunk, met end of file, and the frame loop got
\* the chunk and then the exited signal
C10_Witness ==
    /\ reader.last = "Eof"
    /\ reader.sent = 1
    /\ app.received = 1
    /\ ~app.last_read.ok
    /\ app.pc # "done"

\* PtyHandler::new has returned to its caller
SpawnReturned == app.setup = "Ok"

\* the reader thread has begun to run and has called barrier_clone.wait()
ReaderSignalled == reader.status \in {"waiting", "running", "exited"}

\* the reader thread is past the barrier
ReaderPassed == reader.status \in {"running", "exited"}

\* the main thread has called barrier.wait()
MainSignalled == app.pc \notin {"openpty", "spawned"}

\* C11: PtyHandler::new does not return, and so no write_input is issued,
\* before the reader thread has started and signalled it at the two-party
\* barrier; neither thread passes the barrier alone; and the rendezvous
\* does not deadlock: once the thread is spawned both sides get past it.
C11_SpawnBarrier ==
    /\ []((SpawnReturned \/ app.shell_call = "write_input") => ReaderSignalled)
    /\ [](ReaderPassed => MainSignalled)
    /\ (app.pc = "spawned") ~> (SpawnReturned /\ ReaderPassed)

\* the main thread is in the frame loop while the reader thread, which has
\* signalled, has not yet left the barrier
C11_Witness ==
    /\ SpawnReturned
    /\ app.shell_call = "write_input"
    /\ reader.status = "waiting"
    /\ Released(barrier)

\* C12: when PTY allocation or process spawn fails, the application is
\* still constructed and runs its frame loop without a shell overlay.
C12_SetupErrorFallsBack ==
    app.setup \in {"PtyCreation", "ShellSpawn"}
        => (app.result = "running" /\ app.shell_manager = "None" /\ app.pc # "done")

\* C13: a failed shell resize does not end the frame loop.
C13_ResizeErrorKeepsLoop ==
    app.shell_call = "resize" => app.result = "running"

\* the frame loop has called render_cursor with the interpreter's cursor
\* position (the step after renderer.flush)
CursorRendered == app.shell_call = "get_cursor_pos"

\* C22: CSI l with parameter 25 clears the cursor-visible flag and CSI h
\* with parameter 25 sets it, other parameters leave it; and the frame loop
\* shows the real cursor after a flush only while the flag is set.
C22_CursorVisibility ==
    /\ (~state.panic /\ parser = NewParser) =>
          \A checks \in OverflowChecks :
              /\ After(CSI(<<63, 50, 53, 108>>), checks) = [state EXCEPT !.cursor_visible = FALSE]
              /\ After(CSI(<<63, 50, 53, 104>>), checks) = [state EXCEPT !.cursor_visible = TRUE]
              /\ \A final \in {104, 108} :
                    /\ After(CSI(<<final>>), checks) = state
                    /\ After(CSI(<<63, 49, final>>), checks) = state
                    /\ After(CSI(<<50, 53, 48, final>>), checks) = state
    /\ CursorRendered => state.cursor_visible

\* a step of the release of the PtyHandler, in the order write, delay,
\* release
DropInOrder ==
    app'.pty_drop # app.pty_drop =>
        \/ /\ app.pty_drop = "no" /\ app'.pty_drop = "exit"
           /\ app'.exit_write \in {"ok", "err"}
        \/ /\ app.pty_drop = "exit" /\ app'.pty_drop = "slept"
        \/ /\ app.pty_drop = "slept" /\ app'.pty_drop = "released"

\* once the release has begun nothing comes out of the channel and the
\* interpreter is fed nothing
NothingDelivered ==
    app.pty_drop # "no" =>
        /\ app'.received = app.received
        /\ state' = state /\ parser' = parser
        /\ Len(queue') >= Len(queue)
        /\ SubSeq(queue', 1, Len(queue)) = queue

\* C29: the release of the PTY session writes the exit command, goes on
\* when that write fails, waits the grace delay in every case, and only
\* then releases the PTY, the child and the channel; the chunks still
\* queued then are never given to the interpreter.
C29_ShutdownSequence ==
    /\ [][DropInOrder /\ NothingDelivered]_vars
    /\ [](app.pty_drop = "released" => app.exit_write \in {"ok", "err"})
    /\ (app.pty_drop = "exit") ~> (app.pty_drop = "released")

\* the write of the exit command failed, the delay was waited and the
\* session released with a chunk still in the channel
C29_Witness ==
    /\ app.pty_drop = "released"
    /\ app.exit_write = "err"
    /\ queue # <<>>

\* App::run is inside a frame, between the clear and the flush
InFrame == app.result = "running" /\ app.pc \in {"compose", "drain", "render", "flush"}

\* C32: in every frame of shell mode, from the clear to the flush, the
\* Interpreter grid has the width and height of the Screen Buffer, and so
\* has the size last given to the kernel PTY, whatever resize events, key
\* events and frames came before.
C32_DimensionAgreement ==
    (InFrame /\ app.shell_manager = "Some") =>
        /\ <<state.width, state.height>> = app.renderer_size
        /\ app.pty_size = app.renderer_size
        /\ Len(state.cells) = state.height
        /\ \A y \in 1 .. state.height : Len(state.cells[y]) = state.width

\* a resize event to the widest terminal was handled and the next frame
\* begins
C32_Witness ==
    /\ InFrame /\ app.pc = "compose"
    /\ app.shell_call = "resize"
    /\ app.renderer_size = <<MaxCols, 1>>
    /\ state.width = MaxCols

\* the steps of one frame follow each other in the order of App::run
FrameOrder ==
    /\ (app'.pc = "drain" /\ app.pc # "drain") => app.pc = "compose"
    /\ app'.pc = "render" => app.pc \in {"drain", "render"}
    /\ (app'.pc = "flush" /\ app.pc # "flush") =>
          app.pc = (IF app.shell_manager = "Some" THEN "render" ELSE "compose")
    /\ (app'.pc = "poll" /\ app.pc # "poll") => app.pc = "flush"
    /\ app'.pc \in {"render", "flush", "poll"} => state' = state

\* the flush of this frame has run in shell mode
Flushed == app.result = "running" /\ app.pc = "poll" /\ app.shell_manager = "Some"

\* C33: in a frame the Screen Buffer is cleared and the decorative layers
\* are drawn, then the PTY output is fed to the Interpreter, then the grid
\* is composed, and only then flush runs; so the frame a flush paints
\* holds, at every coordinate, the Interpreter's cell where that cell is
\* opaque and the decorative glyph where it is not, for the grid as it is
\* after all the output consumed in this frame.
C33_FrameOrder ==
    /\ [][FrameOrder]_vars
    /\ [](Flushed =>
            /\ app.screen.width = state.width /\ app.screen.height = state.height
            /\ \A y \in 1 .. state.height, x \in 1 .. state.width :
                  app.screen.cells[y][x] = IF Transparent(state.cells[y][x])
                                           THEN DecorCell
                                           ELSE state.cells[y][x])

\* a frame consumed the letter a and its flush shows it among the
\* decorative glyphs
C33_Witness ==
    /\ Flushed
    /\ app.last_read = OkData(NoId, <<>>)
    /\ \E y \in 1 .. state.height, x \in 1 .. state.width :
          /\ state.cells[y][x].character = 97
          /\ app.screen.cells[y][x].character = 97
    /\ \E y \in 1 .. state.height, x \in 1 .. state.width :
          app.screen.cells[y][x] = DecorCell
(***************************************************************************)
(* Key-event encoder claims (checked under SpecInput)                      *)
(***************************************************************************)
\* the UTF-8 bytes of the characters of the model
Utf8Bytes(c) ==
    CASE c = 233 -> <<195, 169>>
      [] c = 8364 -> <<226, 130, 172>>
      [] c = 128512 -> <<240, 159, 152, 128>>
      [] OTHER -> <<c>>

\* the ASCII code of a letter in upper case, any other code as it is
UpperAscii(c) == IF c >= 97 /\ c <= 122 THEN c - 32 ELSE c

\* C30: a character key with Control gives the one byte
\* (uppercase-ASCII(c) & 0x1F), except that Space and @ give 0x00 and ?
\* gives 0x7F (Ctrl+C gives 0x03); with Alt and without Control it gives
\* 0x1B and then the character's UTF-8 bytes; with neither, the UTF-8
\* bytes. With Control and Alt both held the Control encoding is used,
\* without the ESC.
C30_CharEncoding ==
    key_event.code = "Char" =>
        LET c == key_event.c
            control == "CONTROL" \in key_event.modifiers
            alt == "ALT" \in key_event.modifiers
        IN  /\ control =>
                  /\ Len(key_bytes) = 1
                  /\ key_bytes[1] = IF c \in {32, 64} THEN 0
                                    ELSE IF c = 63 THEN 127
                                    ELSE UpperAscii(c) % 32
                  /\ c \in {99, 67} => key_bytes = <<3>>
            /\ (alt /\ ~control) => key_bytes = <<27>> \o Utf8Bytes(c)
            /\ (~alt /\ ~control) => key_bytes = Utf8Bytes(c)

\* Ctrl+Alt+C was encoded as the single byte 0x03
C30_Witness ==
    /\ key_event = KeyEvent("Char", 99, 0, {"CONTROL", "ALT"})
    /\ key_bytes = <<3>>

(***************************************************************************)
(* Key-event claims (checked under SpecKeys)                               *)
(***************************************************************************)
Esc(bytes) == <<27>> \o bytes

\* the sequences of the named keys
NamedKeyBytes(key) ==
    LET code == key.code
        n == key.n
    IN  CASE code = "Enter" -> <<13>>
          [] code = "Backspace" -> <<127>>
          [] code = "Tab" /\ "SHIFT" \notin key.modifiers -> <<9>>
          [] code = "Tab" /\ "SHIFT" \in key.modifiers -> Esc(<<91, 90>>)
          [] code = "Esc" -> <<27>>
          [] code = "Up" -> Esc(<<91, 65>>)
          [] code = "Down" -> Esc(<<91, 66>>)
          [] code = "Right" -> Esc(<<91, 67>>)
          [] code = "Left" -> Esc(<<91, 68>>)
          [] code = "Home" -> Esc(<<91, 72>>)
          [] code = "End" -> Esc(<<91, 70>>)
          [] code = "PageUp" -> Esc(<<91, 53, 126>>)
          [] code = "PageDown" -> Esc(<<91, 54, 126>>)
          [] code = "Insert" -> Esc(<<91, 50, 126>>)
          [] code = "Delete" -> Esc(<<91, 51, 126>>)
          [] code = "F" /\ n \in 1 .. 4 -> Esc(<<79, 79 + n>>)
          [] code = "F" /\ n = 5 -> Esc(<<91, 49, 53, 126>>)
          [] code = "F" /\ n \in 6 .. 8 -> Esc(<<91, 49, 49 + n, 126>>)
          [] code = "F" /\ n \in 9 .. 10 -> Esc(<<91, 50, 39 + n, 126>>)
          [] code = "F" /\ n \in 11 .. 12 -> Esc(<<91, 50, 40 + n, 126>>)
          [] OTHER -> <<>>

CtrlW(key) == key.code = "Char" /\ key.c = 119 /\ "CONTROL" \in key.modifiers
LetterQ(key) == key.code = "Char" /\ key.c = 113
LetterH(key) == key.code = "Char" /\ key.c = 104

\* C36: Ctrl-W arms the prefix and is never forwarded to the shell, also
\* when the prefix is armed already; with the prefix armed the next key
\* that is not Ctrl-W is consumed as a command (q quits, h toggles the HUD
\* flag, any other key does nothing), is not forwarded and disarms the
\* prefix; a key received with the prefix not armed, other than Ctrl-W, is
\* encoded and written to the PTY in one call of write_input, whose error
\* ends App::run.
C36_PrefixKey ==
    [][ LET key == pty_input'.key
            armed == app.prefix_key_pressed
            sent == pty_input'.forwarded
            bytes == pty_input'.written
        IN  /\ CtrlW(key) =>
                  /\ app'.prefix_key_pressed /\ ~sent /\ bytes = <<>>
                  /\ app'.hide_hud = app.hide_hud /\ app'.result = "running"
            /\ (armed /\ ~CtrlW(key)) =>
                  /\ ~app'.prefix_key_pressed /\ ~sent /\ bytes = <<>>
                  /\ app'.result = (IF LetterQ(key) THEN "ok" ELSE "running")
                  /\ app'.hide_hud = (IF LetterH(key) THEN ~app.hide_hud ELSE app.hide_hud)
            /\ (~armed /\ ~CtrlW(key)) =>
                  /\ sent
                  /\ app'.prefix_key_pressed = app.prefix_key_pressed
                  /\ app'.hide_hud = app.hide_hud
                  /\ app'.result \in {"running", "err"}
                  /\ app'.result = "running" => bytes = KeyEventToBytes(key)
                  /\ app'.result = "err" => bytes = <<>>
      ]_vars

\* Ctrl-W, Ctrl-W, h: the HUD flag was toggled, the prefix is disarmed and
\* nothing was written
C36_Witness ==
    /\ app.hide_hud /\ ~app.prefix_key_pressed
    /\ LetterH(pty_input.key) /\ ~pty_input.forwarded
    /\ app.result = "running"

(***************************************************************************)
(* Chunk claims (checked under SpecChunks)                                 *)
(***************************************************************************)
\* the parser and the OverlayState after the bytes of data, one by one
RECURSIVE ByteByByte(_, _, _)
ByteByByte(ps, data, checks) ==
    IF data = <<>> \/ ps.state.panic THEN ps
    ELSE ByteByByte(Advance(ps, Head(data), checks), Tail(data), checks)

\* the ShellOverlay after one call of process_output with the first n bytes
\* of the stream
InOneCall(n) ==
    ByteByByte([parser |-> NewParser, state |-> NewOverlayState(state.width, state.height)],
               SubSeq(ShellStreams[fed.stream], 1, n), fed.checks)

C38_ResizeFrame ==
    [][fed'.pos = fed.pos =>
          /\ parser' = parser
          /\ state'.current_fg_color = state.current_fg_color
          /\ state'.current_bg_color = state.current_bg_color
          /\ state'.cursor_visible = state.cursor_visible
          /\ state'.saved_cursor_x = state.saved_cursor_x
          /\ state'.saved_cursor_y = state.saved_cursor_y
          /\ state' = [state EXCEPT !.width = state'.width, !.height = state'.height,
                                     !.cells = state'.cells,
                                     !.cursor_x = state'.cursor_x,
                                     !.cursor_y = state'.cursor_y]]_vars

\* the third stream was cut inside CSI u and the grid resized there: the
\* cursor is hidden, the slot holds column 1 and the parser is inside the
\* sequence, over a blank grid
C38_Witness ==
    /\ fed.stream = 3 /\ fed.resized /\ fed.pos = Len(ShellStreams[3]) - 1
    /\ parser.state # "Ground"
    /\ ~state.cursor_visible
    /\ state.saved_cursor_x = 1
    /\ state.width = 2 /\ state.height = 1
    /\ state.cells = BlankCells(2, 1)
    /\ state.cursor_x = 0
(***************************************************************************)
(* Claims about the attribution line                                       *)
(***************************************************************************)
\* C40: the start column of the attribution line is a value in
\* [0, term_width] and is computed without u16 underflow, for every terminal
\* width, also one that exceeds the text length by 1
C40_AttributionNoUnderflow ==
    attribution.drawn =>
        /\ ~panicked
        /\ attribution.x \in 0 .. attribution.term_width

(***************************************************************************)
(* Claims about the weather cache                                          *)
(***************************************************************************)
\* a call of get_current_weather begins in this step
CallBegins == weather'.calls = weather.calls + 1 /\ weather'.op = "get"
\* the provider's answer arrives in this step
CallEnds == weather.pc = "fetching" /\ weather'.pc = "idle"
Younger == weather.cache.some /\ weather.cache.age < weather.cache_duration

\* C39: get_current_weather returns the cached data without calling the
\* provider while the entry is younger than cache_duration, and calls the
\* provider otherwise; a successful answer replaces the entry with the fresh
\* data and is returned; an error is returned and leaves the entry as it
\* was; invalidate_cache empties the cache and the call after it calls the
\* provider
C39_WeatherCache ==
    /\ [][CallBegins /\ Younger =>
              /\ weather'.pc = "idle"
              /\ ~weather'.called
              /\ weather'.result = [kind |-> "Ok", data |-> weather.cache.data]
              /\ weather'.cache = weather.cache]_vars
    /\ [][CallBegins /\ ~Younger =>
              /\ weather'.pc = "fetching"
              /\ weather'.called
              /\ weather'.cache = weather.cache]_vars
    /\ [][CallEnds =>
              \/ /\ weather'.result.kind = "Ok"
                 /\ weather'.result.data[2] \in Responses
                 /\ weather'.cache = [some |-> TRUE, data |-> weather'.result.data,
                                      age |-> 0]
              \/ /\ weather'.result = [kind |-> "Err", data |-> ProviderError]
                 /\ weather'.cache = weather.cache]_vars
    /\ [][weather'.op = "invalidate" /\ weather'.calls = weather.calls + 1 =>
              ~weather'.cache.some]_vars
    /\ [][weather.op = "invalidate" /\ CallBegins =>
              weather'.pc = "fetching" /\ weather'.called]_vars

\* a call answered from the cache: the entry is at least one tick old and
\* one tick short of cache_duration
C39_Witness ==
    /\ weather.op = "get"
    /\ weather.pc = "idle"
    /\ ~weather.called
    /\ weather.result.kind = "Ok"
    /\ weather.cache.some
    /\ weather.cache.age = weather.cache_duration - 1
    /\ weather.cache.age > 0


====
